---------------------------- MODULE Spec2Model ----------------------------
(***************************************************************************)
(* A model of the chat capture engine (src/getchat_cdp.py) and of the      *)
(* request layer in front of it (src/app.py).                              *)
(*                                                                         *)
(* Texts are sequences of one-character strings, so that prefixes,         *)
(* suffixes, trimming and line splitting are computed and not assumed.     *)
(* Time is counted in ticks of the capture interval.                       *)
(***************************************************************************)
EXTENDS Integers, Sequences, FiniteSets, TLC

(***************************************************************************)
(* Text helpers: the Python string operations the code relies on.          *)
(***************************************************************************)
NL == "\n"

\* str.strip()/rstrip() with no argument remove whitespace; the alphabet of
\* the model has the space and the line feed.
IsSpace(c) == c \in {" ", NL}

Take(s, n) == SubSeq(s, 1, IF n < Len(s) THEN n ELSE Len(s))

Drop(s, n) == SubSeq(s, n + 1, Len(s))

\* a.startswith(p)
StartsWith(s, p) == Len(p) <= Len(s) /\ SubSeq(s, 1, Len(p)) = p

\* p in s (substring test)
Contains(s, p) ==
    \E i \in 0..(Len(s) - Len(p)) : SubSeq(s, i + 1, i + Len(p)) = p

\* s.rstrip()
RStrip(s) ==
    LET keep == {i \in 1..Len(s) : ~IsSpace(s[i])}
        last == IF keep = {} THEN 0 ELSE CHOOSE i \in keep : \A j \in keep : j <= i
    IN  SubSeq(s, 1, last)

\* s.lstrip()
LStrip(s) ==
    LET keep  == {i \in 1..Len(s) : ~IsSpace(s[i])}
        first == IF keep = {} THEN Len(s) + 1
                 ELSE CHOOSE i \in keep : \A j \in keep : i <= j
    IN  SubSeq(s, first, Len(s))

\* s.strip()
Strip(s) == LStrip(RStrip(s))

\* s.splitlines(): the pieces between line feeds; a final line feed opens no
\* further line and the empty text has no line.
RECURSIVE SplitLines(_)
SplitLines(s) ==
    IF s = <<>> THEN <<>>
    ELSE LET nls == {i \in 1..Len(s) : s[i] = NL}
         IN  IF nls = {} THEN <<s>>
             ELSE LET k == CHOOSE i \in nls : \A j \in nls : i <= j
                  IN  <<SubSeq(s, 1, k - 1)>> \o SplitLines(Drop(s, k))

\* "\n".join(lines)
RECURSIVE JoinLines(_)
JoinLines(ls) ==
    IF ls = <<>> THEN <<>>
    ELSE IF Len(ls) = 1 THEN ls[1]
    ELSE ls[1] \o <<NL>> \o JoinLines(Tail(ls))

(***************************************************************************)
(* Text normalizer.                                                        *)
(***************************************************************************)
skip_prefixes ==
    { <<"C","o","p","i","l","o","t">>,
      <<"G","e","n","e","r","a","t","i","n","g"," ","r","e","s","p","o","n","s","e">>,
      <<"R","e","a","s","o","n","e","d"," ","f","o","r">>,
      <<"G","e","t"," ","a"," ","q","u","i","c","k"," ","a","n","s","w","e","r">>,
      <<"Y","o","u"," ","s","a","i","d",":">>,
      <<"T","o","d","a","y">> }

\* A rule that cuts a boilerplate prefix off and keeps the rest of the line.
CleanLineCuttingPrefix(line) ==
    LET stripped == Strip(line)
    IN  IF stripped = <<>> THEN << <<>> >>
        ELSE IF \E prefix \in skip_prefixes : StartsWith(stripped, prefix)
        THEN <<Drop(stripped, Len(CHOOSE prefix \in skip_prefixes :
                                      StartsWith(stripped, prefix)))>>
        ELSE IF stripped = <<":">> THEN <<>>
        ELSE <<line>>

\* A rule that drops blank lines too.
CleanLineDroppingBlank(line) ==
    LET stripped == Strip(line)
    IN  IF stripped = <<>> THEN <<>>
        ELSE IF \E prefix \in skip_prefixes : StartsWith(stripped, prefix) THEN <<>>
        ELSE IF stripped = <<":">> THEN <<>>
        ELSE <<line>>

\* The per-line rule: what one line contributes to the cleaned list (a
\* sequence of zero or one line).
CleanLine(line) ==
    LET stripped == Strip(line)
    IN  IF stripped = <<>> THEN << <<>> >>
        ELSE IF \E prefix \in skip_prefixes : StartsWith(stripped, prefix) THEN <<>>
        ELSE IF stripped = <<":">> THEN <<>>
        ELSE <<line>>

RECURSIVE CleanLines(_)
CleanLines(lines) ==
    IF lines = <<>> THEN <<>>
    ELSE CleanLine(lines[1]) \o CleanLines(Tail(lines))

_normalize_stream_text(text) ==
    IF text = <<>> THEN <<>>
    ELSE LET lines == [i \in 1..Len(SplitLines(text)) |-> RStrip(SplitLines(text)[i])]
         IN  Strip(JoinLines(CleanLines(lines)))

(***************************************************************************)
(* Completeness heuristic (backup/test_streaming.py).                      *)
(***************************************************************************)
\* len(content) < 10
MinCompleteLen == 10

\* The double quote and the backquote character, by name.
DoubleQuote == "U+0022"

BackQuote == "U+0060"

complete_endings == {".", "!", "?", ":", ")", DoubleQuote, BackQuote}

message_looks_complete(content) ==
    LET stripped == Strip(content)
    IN  IF stripped = <<>> THEN FALSE
        ELSE IF \/ stripped[Len(stripped)] = "E"
                \/ stripped[Len(stripped)] = " "
                \/ Len(stripped) < MinCompleteLen
        THEN FALSE
        ELSE stripped[Len(stripped)] \in complete_endings

(***************************************************************************)
(* Snapshot source.  A page is what the browser shows at one instant:      *)
(*   users   the inner texts of the elements the user selector matches,    *)
(*   ais     the inner texts of the elements the assistant selector        *)
(*           matches,                                                      *)
(*   loading the inner text of the last loading-message element (empty     *)
(*           when there is none),                                          *)
(*   stop    whether a "Stop generating" control is present.               *)
(* A captured message is modelled by its content; its html snippet and its *)
(* bounding box play no part in any decision of the engine.                *)
(***************************************************************************)
Last(s) == s[Len(s)]

CopilotSaid == <<"C","o","p","i","l","o","t"," ","s","a","i","d">>

EditInAPage == <<"E","d","i","t"," ","i","n"," ","a"," ","p","a","g","e">>

EndsWith(s, p) == Len(p) <= Len(s) /\ SubSeq(s, Len(s) - Len(p) + 1, Len(s)) = p

\* s.replace(sub, "")
RECURSIVE RemoveAll(_, _)
RemoveAll(s, sub) ==
    IF Len(s) < Len(sub) THEN s
    ELSE IF StartsWith(s, sub) THEN RemoveAll(Drop(s, Len(sub)), sub)
    ELSE <<s[1]>> \o RemoveAll(Tail(s), sub)

\* The content kept for one assistant element (empty: the element is skipped).
AiContent(text) ==
    LET clean_text == Strip(text)
    IN  IF ~Contains(clean_text, CopilotSaid) THEN clean_text
        ELSE LET removed == Strip(RemoveAll(clean_text, CopilotSaid))
             IN  IF EndsWith(removed, EditInAPage)
                 THEN Strip(SubSeq(removed, 1, Len(removed) - 13))
                 ELSE removed

RECURSIVE AiContents(_)
AiContents(elements) ==
    IF elements = <<>> THEN <<>>
    ELSE (IF AiContent(elements[1]) = <<>> THEN <<>> ELSE <<AiContent(elements[1])>>)
         \o AiContents(Tail(elements))

_get_current_ai_messages(page) == AiContents(page.ais)

\* The return statement sits inside the loop over the elements: the function
\* returns after the first element it looks at.
_get_current_user_messages(page) ==
    IF page.users = <<>> THEN <<>>
    ELSE IF Strip(page.users[1]) # <<>> THEN <<Strip(page.users[1])>>
    ELSE <<>>

_get_loading_message_text(page) == Strip(page.loading)

_is_stop_generating_present(page) == page.stop

(***************************************************************************)
(* Bounds and program constants.                                           *)
(***************************************************************************)
\* The timeout a direct caller gives an operation, in ticks of the capture
\* interval (one loop iteration takes one tick).
TimeoutTicks == 8

\* The timeout app.py gives (timeout=180.0), in ticks.
AppTimeoutTicks == 8

\* How many blocking requests are made.
NumBlocking == 2

\* How many content changes the page shows during one streamed reply.
MaxDeltas == 2

\* unchanged_polls >= 6
StableThreshold == 6

\* for attempt in range(3)
SendAttempts == 3

\* message[:10]
VerifyLen == 10

\* What one loop iteration costs, in ticks: asyncio.sleep(capture_interval).
PollCosts == {1}

(***************************************************************************)
(* State.                                                                  *)
(***************************************************************************)
VARIABLES
    pc,         \* per request: where its handler (or its caller) stands
    kind,       \* per request: "send", "stream" (the routes of app.py),
                \* "direct_wait", "direct_stream" (a call of the engine)
    msg,        \* per request: the message text the caller gave
    lock,       \* _chat_lock: 0 when free, else the request holding it
    pending,    \* _pending_streams: stream id -> message
    sess,       \* per request: its CopilotChatCaptureCDP object and the
                \* locals of the coroutine running on it
    logfile,    \* the output file, one record per line
    q,          \* per request: the queue of _stream_response
    events,     \* per request: the events its consumer has received
    emitted,    \* per request: the deltas its generator has yielded
    submitted,  \* the messages sent into the page by an Enter key press
    resp,       \* per request: what the caller got back
    scene       \* a scripted page: where it stands in its script, or the
                \* shots it has shown, one per poll (0: no script)

vars == <<pc, kind, msg, lock, pending, sess, logfile, q, events, emitted,
          submitted, resp, scene>>

Requests == DOMAIN pc

None == [status |-> 0]

\* No capture object (not constructed yet, or dropped after the request).
NoSession == [spc |-> "none"]

\* CopilotChatCaptureCDP.__init__ and the first assignments of the coroutine.
NewSession(mode, message, timeout) ==
    [ spc                         |-> "connect",
      timeout                     |-> timeout,
      mode                        |-> mode,
      message                     |-> message,
      user_messages_list          |-> <<>>,
      ai_messages_list            |-> <<>>,
      last_user_index_written     |-> -1,
      last_ai_index_written       |-> -1,
      message_count               |-> 0,
      loop_count                  |-> 0,
      running                     |-> FALSE,
      start_ai_count              |-> 0,
      baseline_last_ai_normalized |-> <<>>,
      baseline_loading            |-> <<>>,
      last_content                |-> <<>>,
      seen_stop_generating        |-> FALSE,
      first_new_content           |-> FALSE,
      unchanged_polls             |-> 0,
      elapsed                     |-> 0,
      result                      |-> None ]

\* What a coroutine ends with: a returned value or a raised exception.  The
\* cause names the place in the code that ended it.
Returned(value) == [status |-> 1, ok |-> TRUE, value |-> value]

Raised(type, text, cause) ==
    [status |-> 1, ok |-> FALSE, type |-> type, text |-> text, cause |-> cause]

TimedOutError ==
    Raised("TimeoutError", "Timed out waiting for AI response", "TimedOut")

\* The failures of connecting, of selecting the page and of waiting for the
\* chat textbox.
ConnectErrors ==
    { Raised("Exception", "No browser contexts found", "ConnectionFailure"),
      Raised("Exception", "No pages found", "ConnectionFailure"),
      Raised("playwright.Error", "connect ECONNREFUSED", "ConnectionFailure"),
      Raised("playwright.TimeoutError", "Timeout 30000ms exceeded.", "ConnectionFailure") }

\* _save_message_by_index: one record appended to the output file.
MessageRecord(r, type, index, content) ==
    [by |-> r, rec |-> "message", type |-> type, index |-> index, content |-> content]

_generate_message_id(message_type, index) == <<message_type, index>>

\* A file opened for writing anew: what it held is lost.
Rewritten(file, records) == records

\* with open(self.output_file, 'a') as f: f.write(...): the file afterwards.
Appended(file, records) == file \o records

(***************************************************************************)
(* The engine: send_message_and_wait_for_ai and stream_ai_response.        *)
(* A session step is one await-free stretch of the coroutine: connecting,  *)
(* taking the baseline, sending, one iteration of the poll loop.           *)
(***************************************************************************)
SetSess(r, s) == sess' = [sess EXCEPT ![r] = s]

\* What is left of a worker thread that ended: how its coroutine ended.
Exited(result) == [spc |-> "exited", result |-> result]

Running(r) == r \in Requests /\ sess[r].spc \notin {"none", "exited"}

\* _connect_to_browser, _select_copilot_page, _wait_for_chat_textbox: the
\* collaborators succeed, or raise.
Connect(r) ==
    /\ Running(r)
    /\ sess[r].spc = "connect"
    /\ \/ SetSess(r, [sess[r] EXCEPT !.spc = "baseline"])
       \/ \E e \in ConnectErrors :
              SetSess(r, [sess[r] EXCEPT !.spc = "raised", !.result = e])
    /\ UNCHANGED <<pc, kind, msg, lock, pending, logfile, q, events, emitted,
                   submitted, resp, scene>>

\* A poll that falls back to the last assistant block whenever the indicator
\* gives no canonical text.
PollViewFallingBack(page) ==
    [ users              |-> _get_current_user_messages(page),
      ais                |-> _get_current_ai_messages(page),
      loading_text       |-> _get_loading_message_text(page),
      stop               |-> _is_stop_generating_present(page),
      latest             |-> IF _normalize_stream_text(_get_loading_message_text(page)) # <<>>
                             THEN _normalize_stream_text(_get_loading_message_text(page))
                             ELSE _normalize_stream_text(
                                      IF _get_current_ai_messages(page) # <<>>
                                      THEN Last(_get_current_ai_messages(page))
                                      ELSE <<>>),
      normalized_content |-> _normalize_stream_text(
                                 IF _get_current_ai_messages(page) # <<>>
                                 THEN Last(_get_current_ai_messages(page))
                                 ELSE <<>>) ]

\* What the code computes from the page in one pass over its queries, before
\* it looks at its own state: the two snapshots, the indicator text, the stop
\* control, the text it calls latest and the canonical text of the last
\* assistant block.
PollView(page) ==
    [ users              |-> _get_current_user_messages(page),
      ais                |-> _get_current_ai_messages(page),
      loading_text       |-> _get_loading_message_text(page),
      stop               |-> _is_stop_generating_present(page),
      latest             |-> _normalize_stream_text(
                                 IF _get_loading_message_text(page) # <<>>
                                 THEN _get_loading_message_text(page)
                                 ELSE IF _get_current_ai_messages(page) # <<>>
                                      THEN Last(_get_current_ai_messages(page))
                                 ELSE <<>>),
      normalized_content |-> _normalize_stream_text(
                                 IF _get_current_ai_messages(page) # <<>>
                                 THEN Last(_get_current_ai_messages(page))
                                 ELSE <<>>) ]

\* The baseline taken before the send.
Baseline(r, v) ==
    /\ Running(r)
    /\ sess[r].spc = "baseline"
    /\ SetSess(r, [sess[r] EXCEPT
           !.spc = "send",
           !.start_ai_count = Len(v.ais),
           !.baseline_last_ai_normalized = v.normalized_content,
           !.baseline_loading = v.loading_text])
    /\ UNCHANGED <<pc, kind, msg, lock, pending, logfile, q, events, emitted,
                   submitted, resp, scene>>

\* What one attempt of _send_message can meet: no textbox, or a textbox whose
\* value reads back as nothing, as something else, as the message, or as the
\* message entered twice (set, then typed).
NoTextbox == [found |-> FALSE, value |-> <<>>]

ReadBacks(message) == {<<>>, <<"?">>, message, message \o message}

AttemptOutcomes(message) ==
    {NoTextbox} \cup {[found |-> TRUE, value |-> v] : v \in ReadBacks(message)}

\* A check that is content with any textbox it found.
VerifiedFound(message, attempt) == attempt.found

\* message[:10] in current_value
Verified(message, attempt) ==
    attempt.found /\ Contains(attempt.value, Take(message, VerifyLen))

\* _send_message: the attempt that pressed Enter (0: none did).
SendingAttempt(message, attempts) ==
    LET good == {i \in 1..SendAttempts : Verified(message, attempts[i])}
    IN  IF good = {} THEN 0 ELSE CHOOSE i \in good : \A j \in good : i <= j

\* _send_message: raise Exception(last_error or "Failed to send message")
SendError(attempts) ==
    IF attempts[SendAttempts].found
    THEN Raised("Exception", "Message not set in textbox", "SendFailed")
    ELSE Raised("Exception", "Chat textbox not found", "SendFailed")

SelectorTimeout ==
    Raised("playwright.TimeoutError", "Timeout 10000ms exceeded.", "SendFailed")

\* _send_message, and the assignments between it and the poll loop.
SendMessage(r, visible, attempts) ==
    /\ Running(r)
    /\ sess[r].spc = "send"
    /\ LET k == SendingAttempt(sess[r].message, attempts)
       IN  IF ~visible
           THEN /\ SetSess(r, [sess[r] EXCEPT !.spc = "raised", !.result = SelectorTimeout])
                /\ UNCHANGED submitted
           ELSE IF k = 0
           THEN /\ SetSess(r, [sess[r] EXCEPT !.spc = "raised",
                                              !.result = SendError(attempts)])
                /\ UNCHANGED submitted
           ELSE /\ SetSess(r, [sess[r] EXCEPT
                       !.spc = "poll",
                       !.last_content = sess[r].baseline_last_ai_normalized,
                       !.seen_stop_generating = FALSE,
                       !.first_new_content = FALSE,
                       !.unchanged_polls = 0,
                       !.elapsed = 0])
                /\ submitted' = Append(submitted, [by |-> r, text |-> attempts[k].value])
    /\ UNCHANGED <<pc, kind, msg, lock, pending, logfile, q, events, emitted, resp, scene>>

(***************************************************************************)
(* The poll loop.                                                          *)
(***************************************************************************)
\* A loop that does not compare the indicator with the baseline.
StillIdleWithoutIndicator(s, v) ==
    \/ v.latest = <<>>
    \/ /\ v.loading_text = <<>>
       /\ Len(v.ais) <= s.start_ai_count
       /\ v.latest = s.baseline_last_ai_normalized

\* The three places where the loop continues without looking further:
\* nothing to read, the indicator as it was at the baseline, or no new
\* assistant block and the text of the baseline.
StillIdle(s, v) ==
    \/ v.latest = <<>>
    \/ /\ v.loading_text # <<>>
       /\ v.loading_text = s.baseline_loading
    \/ /\ v.loading_text = <<>>
       /\ Len(v.ais) <= s.start_ai_count
       /\ v.latest = s.baseline_last_ai_normalized

\* if await self._is_stop_generating_present(): seen_stop_generating = True
SawStop(s, v) ==
    [s EXCEPT !.seen_stop_generating = @ \/ v.stop]

\* A clock that is read anew at every iteration, so that no time passes.
ElapsedFrozen(elapsed, d) == elapsed

\* time.time() - start_time after one more iteration that took d ticks.
Elapsed(elapsed, d) == elapsed + d

\* A tracker that starts over when the text repeats.
TrackedStartingOver(s, v) ==
    IF v.latest # s.last_content
    THEN [SawStop(s, v) EXCEPT !.first_new_content = TRUE,
                                  !.unchanged_polls = 0,
                                  !.last_content = v.latest]
    ELSE IF s.first_new_content
    THEN [SawStop(s, v) EXCEPT !.first_new_content = FALSE]
    ELSE SawStop(s, v)

\* A tracker that keeps its counter when the text changes.
TrackedKeepingCounter(s, v) ==
    IF v.latest # s.last_content
    THEN [SawStop(s, v) EXCEPT !.first_new_content = TRUE,
                                  !.last_content = v.latest]
    ELSE IF s.first_new_content
    THEN [SawStop(s, v) EXCEPT !.unchanged_polls = @ + 1]
    ELSE SawStop(s, v)

\* if latest != last_content: ... elif first_new_content: unchanged_polls += 1
Tracked(s, v) ==
    IF v.latest # s.last_content
    THEN [SawStop(s, v) EXCEPT !.first_new_content = TRUE,
                                  !.unchanged_polls = 0,
                                  !.last_content = v.latest]
    ELSE IF s.first_new_content
    THEN [SawStop(s, v) EXCEPT !.unchanged_polls = @ + 1]
    ELSE SawStop(s, v)

\* A finalize condition that forgets the first-delta flag.
FinalizeDueWithoutFirstDelta(t, v) ==
    /\ ~v.stop
    /\ (t.seen_stop_generating \/ t.unchanged_polls >= StableThreshold)

\* A finalize condition that waits for the counter only.
FinalizeDueOnCounterOnly(t, v) ==
    /\ t.first_new_content
    /\ ~v.stop
    /\ t.unchanged_polls >= StableThreshold

\* A finalize condition that does not look at the stop control of this poll.
FinalizeDueIgnoringStop(t, v) ==
    /\ t.first_new_content
    /\ (t.seen_stop_generating \/ t.unchanged_polls >= StableThreshold)

\* if first_new_content and not stop_generating_present:
\*     if seen_stop_generating or unchanged_polls >= 6:
FinalizeDue(t, v) ==
    /\ t.first_new_content
    /\ ~v.stop
    /\ (t.seen_stop_generating \/ t.unchanged_polls >= StableThreshold)

\* yield latest
Delta(last_content, latest) == latest

\* The user messages a poll of send_message_and_wait_for_ai writes.
NewUserMessages(s, v) ==
    IF Len(v.users) > Len(s.user_messages_list)
    THEN SubSeq(v.users, Len(s.user_messages_list) + 1,
                Len(v.users))
    ELSE <<>>

UserRecords(r, s, new) ==
    [i \in 1..Len(new) |->
        MessageRecord(r, "user", Len(s.user_messages_list) + i - 1, new[i])]

UserLedgered(s, new) ==
    IF new = <<>> THEN s
    ELSE [s EXCEPT !.user_messages_list = @ \o new,
                   !.last_user_index_written = Len(s.user_messages_list) + Len(new) - 1,
                   !.message_count = @ + Len(new)]

\* The assistant entry send_message_and_wait_for_ai writes when it returns.
AiLedgeredWait(t, current_ai_messages) ==
    [t EXCEPT !.ai_messages_list = current_ai_messages,
              !.last_ai_index_written = Len(current_ai_messages) - 1,
              !.message_count = @ + 1]

\* One iteration of the loop of send_message_and_wait_for_ai.
WaitPoll(r, v, d) ==
    /\ Running(r)
    /\ sess[r].spc = "poll"
    /\ sess[r].mode = "wait"
    /\ sess[r].elapsed < sess[r].timeout
    /\ LET s0  == [sess[r] EXCEPT !.elapsed = Elapsed(@, d)]
           new == NewUserMessages(s0, v)
           s1  == UserLedgered(s0, new)
           t   == Tracked(s1, v)
       IN  IF StillIdle(s1, v)
           THEN /\ SetSess(r, SawStop(s1, v))
                /\ logfile' = Appended(logfile, UserRecords(r, s0, new))
           ELSE IF /\ FinalizeDue(t, v)
                   /\ v.ais # <<>>
                   /\ v.normalized_content # <<>>
           THEN /\ SetSess(r, [AiLedgeredWait(t, v.ais) EXCEPT
                       !.spc = "returned",
                       !.result = Returned(v.normalized_content)])
                /\ logfile' = Appended(logfile, UserRecords(r, s0, new)
                       \o <<MessageRecord(r, "ai", Len(v.ais) - 1, Last(v.ais))>>)
           ELSE /\ SetSess(r, t)
                /\ logfile' = Appended(logfile, UserRecords(r, s0, new))
    /\ UNCHANGED <<pc, kind, msg, lock, pending, q, events, emitted, submitted, resp, scene>>

\* The end of an async generator: it closes without a value.
Closed == [status |-> 1, ok |-> TRUE, closed |-> TRUE]

\* The assistant entry stream_ai_response writes when it closes.
AiLedgeredStream(t, current_ai_messages) ==
    IF current_ai_messages # <<>>
    THEN [t EXCEPT !.last_ai_index_written = Len(current_ai_messages) - 1,
                   !.message_count = @ + 1]
    ELSE t

\* A hand-off that keeps only the newest delta.
WorkerPutReplacing(queue, delta) == <<[type |-> "data", payload |-> delta]>>

\* async for delta in capture.stream_ai_response(...): q.put(("data", delta))
WorkerPut(queue, delta) == Append(queue, [type |-> "data", payload |-> delta])

\* One iteration of the loop of stream_ai_response.  The consumer of the
\* generator runs at the yield: for a request of the streaming route it is
\* the worker's loop body.
StreamPoll(r, v, d) ==
    /\ Running(r)
    /\ sess[r].spc = "poll"
    /\ sess[r].mode = "stream"
    /\ sess[r].elapsed < sess[r].timeout
    /\ LET s1  == [sess[r] EXCEPT !.elapsed = Elapsed(@, d)]
           t   == Tracked(s1, v)
           out == IF v.latest # s1.last_content
                  THEN <<Delta(s1.last_content, v.latest)>> ELSE <<>>
       IN  IF StillIdle(s1, v)
           THEN /\ SetSess(r, SawStop(s1, v))
                /\ UNCHANGED <<logfile, emitted, q>>
           ELSE /\ emitted' = [emitted EXCEPT ![r] = @ \o out]
                /\ q' = IF kind[r] \in {"stream", "replay"} /\ out # <<>>
                        THEN [q EXCEPT ![r] = WorkerPut(@, out[1])] ELSE q
                /\ IF FinalizeDue(t, v)
                   THEN /\ SetSess(r, [AiLedgeredStream(t, v.ais) EXCEPT
                               !.spc = "returned", !.result = Closed])
                        /\ logfile' = IF v.ais # <<>>
                               THEN Appended(logfile,
                                        <<MessageRecord(r, "ai", Len(v.ais) - 1, Last(v.ais))>>)
                               ELSE logfile
                   ELSE /\ SetSess(r, t)
                        /\ UNCHANGED logfile
    /\ UNCHANGED <<pc, kind, msg, lock, pending, events, submitted, resp, scene>>

\* The loop condition fails: raise TimeoutError("Timed out waiting for AI response")
TimeOut(r) ==
    /\ Running(r)
    /\ sess[r].spc = "poll"
    /\ sess[r].elapsed >= sess[r].timeout
    /\ SetSess(r, [sess[r] EXCEPT !.spc = "raised", !.result = TimedOutError])
    /\ UNCHANGED <<pc, kind, msg, lock, pending, logfile, q, events, emitted,
                   submitted, resp, scene>>

(***************************************************************************)
(* A direct call of the engine: the caller constructs the capture object,  *)
(* calls the operation with its message and gets the value or exception.   *)
(***************************************************************************)
DirectMode(k) == IF k = "direct_wait" THEN "wait" ELSE "stream"

DirectCall(r) ==
    /\ r \in Requests
    /\ pc[r] = "idle"
    /\ kind[r] \in {"direct_wait", "direct_stream"}
    /\ pc' = [pc EXCEPT ![r] = "cycle"]
    /\ SetSess(r, NewSession(DirectMode(kind[r]), msg[r], TimeoutTicks))
    /\ UNCHANGED <<kind, msg, lock, pending, logfile, q, events, emitted,
                   submitted, resp, scene>>

DirectDone(r) ==
    /\ r \in Requests
    /\ pc[r] = "cycle"
    /\ kind[r] \in {"direct_wait", "direct_stream"}
    /\ sess[r].spc \in {"returned", "raised"}
    /\ pc' = [pc EXCEPT ![r] = "done"]
    /\ resp' = [resp EXCEPT ![r] = sess[r].result]
    /\ UNCHANGED <<kind, msg, lock, pending, sess, logfile, q, events, emitted,
                   submitted, scene>>

(***************************************************************************)
(* The blocking route: send_message and _send_and_receive.                 *)
(***************************************************************************)
EmptyMessage400 ==
    [status |-> 400, error |-> "Message cannot be empty.", cause |-> "EmptyInput"]

\* jsonify({"response": response_text})
Ok200(result) == [status |-> 200, response |-> result.value]

\* An error reply that does not say what failed.
Error500Generic(result) ==
    [status |-> 500, error |-> "Internal Server Error", cause |-> result.cause]

\* jsonify({"error": str(e)}), 500
Error500(result) == [status |-> 500, error |-> result.text, cause |-> result.cause]

\* send_message up to the with statement.
SendRoute(r) ==
    /\ r \in Requests
    /\ pc[r] = "idle"
    /\ kind[r] = "send"
    /\ IF Strip(msg[r]) = <<>>
       THEN /\ pc' = [pc EXCEPT ![r] = "done"]
            /\ resp' = [resp EXCEPT ![r] = EmptyMessage400]
       ELSE /\ pc' = [pc EXCEPT ![r] = "lockwait"]
            /\ UNCHANGED resp
    /\ UNCHANGED <<kind, msg, lock, pending, sess, logfile, q, events, emitted,
                   submitted, scene>>

\* A lock that never makes a request wait.
LockAlwaysFree == TRUE

\* threading.Lock.acquire
LockFree == lock = 0

\* with _chat_lock: entered; _send_and_receive constructs the capture object.
AcquireLock(r) ==
    /\ r \in Requests
    /\ pc[r] = "lockwait"
    /\ LockFree
    /\ lock' = r
    /\ pc' = [pc EXCEPT ![r] = "cycle"]
    /\ SetSess(r, NewSession("wait", Strip(msg[r]), AppTimeoutTicks))
    /\ UNCHANGED <<kind, msg, pending, logfile, q, events, emitted, submitted, resp, scene>>

\* A release that is skipped when the cycle raised.
ReleasedOnSuccessOnly(held, ok) == IF ok THEN 0 ELSE held

\* The lock after the with statement is left by a return (ok) or through
\* the except clause.
Released(held, ok) == 0

\* asyncio.run returned or raised: the response is built, the with statement
\* is left and the capture object is dropped.
Respond(r) ==
    /\ r \in Requests
    /\ pc[r] = "cycle"
    /\ kind[r] = "send"
    /\ sess[r].spc \in {"returned", "raised"}
    /\ resp' = [resp EXCEPT ![r] = IF sess[r].result.ok THEN Ok200(sess[r].result)
                                   ELSE Error500(sess[r].result)]
    /\ lock' = Released(lock, sess[r].result.ok)
    /\ pc' = [pc EXCEPT ![r] = "done"]
    /\ SetSess(r, NoSession)
    /\ UNCHANGED <<kind, msg, pending, logfile, q, events, emitted, submitted, scene>>

(***************************************************************************)
(* The streaming route: send_stream, stream_events and _stream_response.   *)
(* The stream id of a request is the request itself: uuid4 gives every     *)
(* call of send_stream an id of its own.                                   *)
(***************************************************************************)
StreamId200(r) == [status |-> 200, stream_id |-> r]

InvalidStream ==
    [status |-> 200, event |-> "error", error |-> "Invalid or expired stream id."]

\* send_stream
SendStreamRoute(r) ==
    /\ r \in Requests
    /\ pc[r] = "idle"
    /\ kind[r] = "stream"
    /\ IF Strip(msg[r]) = <<>>
       THEN /\ pc' = [pc EXCEPT ![r] = "done"]
            /\ resp' = [resp EXCEPT ![r] = EmptyMessage400]
            /\ UNCHANGED pending
       ELSE /\ pc' = [pc EXCEPT ![r] = "registered"]
            /\ resp' = [resp EXCEPT ![r] = StreamId200(r)]
            /\ pending' = (r :> Strip(msg[r])) @@ pending
    /\ UNCHANGED <<kind, msg, lock, sess, logfile, q, events, emitted, submitted, scene>>

\* stream_events: the id is popped; a known id starts the worker thread and
\* hands the generator to the server, an unknown one gets the error reply.
\* A request of kind "events" is a client that connects with an id that was
\* never issued; one of kind "replay" is a further client that connects with
\* the id issued to the request of kind "stream".
Token(r) ==
    IF kind[r] = "replay" THEN CHOOSE t \in Requests : kind[t] = "stream" ELSE r

\* A lookup that leaves the entry in the registry.
Kept(registry, stream_id) == registry

\* _pending_streams.pop(stream_id, None): the registry afterwards.
Popped(registry, stream_id) ==
    [t \in DOMAIN registry \ {stream_id} |-> registry[t]]

StreamEvents(r) ==
    /\ r \in Requests
    /\ \/ pc[r] = "registered" /\ kind[r] = "stream"
       \/ pc[r] = "idle" /\ kind[r] \in {"events", "replay"}
    /\ pending' = Popped(pending, Token(r))
    /\ IF Token(r) \in DOMAIN pending
       THEN /\ pc' = [pc EXCEPT ![r] = "consume_start"]
            /\ SetSess(r, NewSession("stream", pending[Token(r)], AppTimeoutTicks))
            /\ UNCHANGED resp
       ELSE /\ pc' = [pc EXCEPT ![r] = "done"]
            /\ resp' = [resp EXCEPT ![r] = InvalidStream]
            /\ UNCHANGED sess
    /\ UNCHANGED <<kind, msg, lock, logfile, q, events, emitted, submitted, scene>>

\* worker: the generator is exhausted: q.put(("end", "[DONE]")); the thread
\* ends and its capture object is dropped.
WorkerEnd(r) ==
    /\ Running(r)
    /\ kind[r] \in {"stream", "replay"}
    /\ sess[r].spc = "returned"
    /\ q' = [q EXCEPT ![r] = Append(@, [type |-> "end", payload |-> "[DONE]"])]
    /\ SetSess(r, Exited(sess[r].result))
    /\ UNCHANGED <<pc, kind, msg, lock, pending, logfile, events, emitted,
                   submitted, resp, scene>>

\* worker: except Exception as e: q.put(("error", str(e)))
WorkerError(r) ==
    /\ Running(r)
    /\ kind[r] \in {"stream", "replay"}
    /\ sess[r].spc = "raised"
    /\ q' = [q EXCEPT ![r] = Append(@, [type |-> "error", payload |-> sess[r].result.text])]
    /\ SetSess(r, Exited(sess[r].result))
    /\ UNCHANGED <<pc, kind, msg, lock, pending, logfile, events, emitted,
                   submitted, resp, scene>>

\* An event_stream that goes to its loop without announcing the start.
ConsumerStartSilent(r) ==
    /\ r \in Requests
    /\ pc[r] = "consume_start"
    /\ pc' = [pc EXCEPT ![r] = "consume"]
    /\ UNCHANGED <<kind, msg, lock, pending, sess, logfile, q, events, emitted,
                   submitted, resp, scene>>

\* event_stream: yield "event: start\ndata: ok\n\n"
ConsumerStart(r) ==
    /\ r \in Requests
    /\ pc[r] = "consume_start"
    /\ events' = [events EXCEPT ![r] = Append(@, [event |-> "start", data |-> "ok"])]
    /\ pc' = [pc EXCEPT ![r] = "consume"]
    /\ UNCHANGED <<kind, msg, lock, pending, sess, logfile, q, emitted, submitted, resp, scene>>

\* A framing that reports a failure as a normal end.
FrameErrorAsEnd(item) ==
    IF item.type = "data" THEN [event |-> "data", data |-> item.payload]
    ELSE [event |-> "end", data |-> "done"]

\* The frame event_stream yields for one item of the queue.
Frame(item) ==
    IF item.type = "data" THEN [event |-> "data", data |-> item.payload]
    ELSE IF item.type = "end" THEN [event |-> "end", data |-> "done"]
    ELSE [event |-> "error", data |-> item.payload]

\* q.get(): the oldest item and the queue without it.
QueueGet(queue) == [item |-> Head(queue), rest |-> Tail(queue)]

\* event_stream: one iteration of its loop; q.get() blocks on an empty queue.
ConsumerGet(r) ==
    /\ r \in Requests
    /\ pc[r] = "consume"
    /\ q[r] # <<>>
    /\ q' = [q EXCEPT ![r] = QueueGet(q[r]).rest]
    /\ events' = [events EXCEPT ![r] = Append(@, Frame(QueueGet(q[r]).item))]
    /\ pc' = [pc EXCEPT ![r] = IF QueueGet(q[r]).item.type \in {"end", "error"}
                               THEN "done" ELSE "consume"]
    /\ UNCHANGED <<kind, msg, lock, pending, sess, logfile, emitted, submitted, resp, scene>>

(***************************************************************************)
(* Initial states and environments.                                        *)
(***************************************************************************)
\* kinds: the kind of each request, a sequence; messages: what their
\* callers may give.
\* scenes: where a scripted page may start ({0}: no script).
InitOn(kinds, messages, scenes) ==
    /\ pc = [r \in DOMAIN kinds |-> "idle"]
    /\ kind = kinds
    /\ msg \in [DOMAIN kinds -> messages]
    /\ lock = 0
    /\ pending = <<>>
    /\ sess = [r \in DOMAIN kinds |-> NoSession]
    /\ logfile = <<>>
    /\ q = [r \in DOMAIN kinds |-> <<>>]
    /\ events = [r \in DOMAIN kinds |-> <<>>]
    /\ emitted = [r \in DOMAIN kinds |-> <<>>]
    /\ submitted = <<>>
    /\ resp = [r \in DOMAIN kinds |-> None]
    /\ scene \in scenes

InitWith(kinds, messages) == InitOn(kinds, messages, {0})

tHi == <<"H","i">>

tHiBang == <<"H","i","!">>

tYo == <<"Y","o">>

tTodayHi == <<"T","o","d","a","y",NL,"H","i">>

tGenerating ==
    <<"G","e","n","e","r","a","t","i","n","g"," ","r","e","s","p","o","n","s","e">>

Messages == {<<>>, <<" ">>, <<"h","i">>}

\* The pages the baseline can meet: with or without an earlier reply, with
\* or without an indicator left showing text.
BaselinePages ==
    [ users   : {<<>>},
      ais     : {<<>>, <<tHi>>},
      loading : {<<>>, tHi},
      stop    : {FALSE} ]

\* The pages a poll can meet: no assistant block, one (growing, rewritten,
\* or preceded by a boilerplate line), or a second one after the first; the
\* indicator absent, showing boilerplate only, or showing text.
Pages ==
    [ users   : {<<>>, << <<"h","i">> >>},
      ais     : {<<>>, <<tHi>>, <<tHiBang>>, <<tTodayHi>>, <<tHi, tYo>>},
      loading : {<<>>, tGenerating, tHi},
      stop    : BOOLEAN ]

BaselineViews == {PollView(page) : page \in BaselinePages}

Views == {PollView(page) : page \in Pages}

\* The page shows at most MaxDeltas content changes to one streamed reply.
WithinDeltas(r, v) ==
    \/ Len(emitted[r]) < MaxDeltas
    \/ StillIdle(sess[r], v)
    \/ v.latest = sess[r].last_content

\* The steps of a session, for the baselines and the views a specification
\* lets the page show.
DoBaseline(baselines) ==
    \E r \in Requests : \E v \in baselines : Baseline(r, v)

DoSendMessage ==
    \E r \in Requests :
        /\ Running(r)
        /\ \E visible \in BOOLEAN :
           \E attempts \in [1..SendAttempts -> AttemptOutcomes(sess[r].message)] :
               SendMessage(r, visible, attempts)

DoWaitPoll(views) ==
    \E r \in Requests : \E v \in views : \E d \in PollCosts : WaitPoll(r, v, d)

DoStreamPoll(views) ==
    \E r \in Requests :
        /\ Running(r)
        /\ \E v \in views : \E d \in PollCosts :
               WithinDeltas(r, v) /\ StreamPoll(r, v, d)

(***************************************************************************)
(* Spec: one direct call of the engine against an arbitrary page.          *)
(***************************************************************************)
Init ==
    \E k \in {"direct_wait", "direct_stream"} : InitWith(<<k>>, Messages)

Next ==
    \/ \E r \in Requests : DirectCall(r)
    \/ \E r \in Requests : Connect(r)
    \/ DoBaseline(BaselineViews)
    \/ DoSendMessage
    \/ DoWaitPoll(Views)
    \/ DoStreamPoll(Views)
    \/ \E r \in Requests : TimeOut(r)
    \/ \E r \in Requests : DirectDone(r)

Spec == Init /\ [][Next]_vars

\* SpecLive: a direct call on an event loop that keeps running it: a step
\* that can be taken (the sleep ends, a query answers, the coroutine goes on)
\* eventually is.
LivePages ==
    [ users   : {<<>>, << <<"h","i">> >>},
      ais     : {<<>>, <<tHi>>, <<tHiBang>>},
      loading : {<<>>, tGenerating, tHi},
      stop    : BOOLEAN ]

LiveViews == {PollView(page) : page \in LivePages}

InitLive ==
    \E k \in {"direct_wait", "direct_stream"} : InitWith(<<k>>, {<<"h","i">>})

NextLive ==
    \/ \E r \in Requests : DirectCall(r)
    \/ \E r \in Requests : Connect(r)
    \/ DoBaseline(BaselineViews)
    \/ DoSendMessage
    \/ DoWaitPoll(LiveViews)
    \/ DoStreamPoll(LiveViews)
    \/ \E r \in Requests : TimeOut(r)
    \/ \E r \in Requests : DirectDone(r)

SpecLive == InitLive /\ [][NextLive]_vars /\ WF_vars(NextLive)

(***************************************************************************)
(* SpecBlocking: concurrent requests to the blocking route.                *)
(***************************************************************************)
BlockingMessages == {<<" ">>, <<"h","i">>}

BlockingPages ==
    [ users   : {<<>>},
      ais     : {<<>>, <<tHi>>},
      loading : {<<>>},
      stop    : BOOLEAN ]

BlockingViews == {PollView(page) : page \in BlockingPages}

InitBlocking == InitWith([r \in 1..NumBlocking |-> "send"], BlockingMessages)

NextBlocking ==
    \/ \E r \in Requests : SendRoute(r)
    \/ \E r \in Requests : AcquireLock(r)
    \/ \E r \in Requests : Connect(r)
    \/ DoBaseline(BlockingViews)
    \/ DoSendMessage
    \/ DoWaitPoll(BlockingViews)
    \/ \E r \in Requests : TimeOut(r)
    \/ \E r \in Requests : Respond(r)

SpecBlocking == InitBlocking /\ [][NextBlocking]_vars

(***************************************************************************)
(* SpecStream: one request to the streaming route, and a client that       *)
(* connects with a stream id that was never issued.                        *)
(***************************************************************************)
StreamPages ==
    [ users   : {<<>>},
      ais     : {<<>>, <<tHi>>, <<tHiBang>>, <<tYo>>},
      loading : {<<>>},
      stop    : BOOLEAN ]

StreamViews == {PollView(page) : page \in StreamPages}

InitStream == InitWith(<<"stream", "events">>, Messages)

NextStream ==
    \/ \E r \in Requests : SendStreamRoute(r)
    \/ \E r \in Requests : StreamEvents(r)
    \/ \E r \in Requests : Connect(r)
    \/ DoBaseline(StreamViews)
    \/ DoSendMessage
    \/ DoStreamPoll(StreamViews)
    \/ \E r \in Requests : TimeOut(r)
    \/ \E r \in Requests : WorkerEnd(r)
    \/ \E r \in Requests : WorkerError(r)
    \/ \E r \in Requests : ConsumerStart(r)
    \/ \E r \in Requests : ConsumerGet(r)

SpecStream == InitStream /\ [][NextStream]_vars

(***************************************************************************)
(* SpecHello: one request to the streaming route while the reply on the    *)
(* page grows as "Hello", "Hello there", "Hello there!".  The page starts  *)
(* without assistant block; it shows the next text only after a poll has   *)
(* seen the text before, so the text grows over successive polls.  The     *)
(* stop control may be present or absent at any poll.                      *)
(***************************************************************************)
tHello == <<"H","e","l","l","o">>

tThere == <<" ","t","h","e","r","e">>

tBang == <<"!">>

HelloTexts == <<tHello, tHello \o tThere, tHello \o tThere \o tBang>>

HelloPage(i, stop) ==
    [ users   |-> <<>>,
      ais     |-> IF i = 0 THEN <<>> ELSE <<HelloTexts[i]>>,
      loading |-> <<>>,
      stop    |-> stop ]

HelloViews == [i \in 0..Len(HelloTexts) |-> [b \in BOOLEAN |-> PollView(HelloPage(i, b))]]

PageGrows ==
    /\ scene < Len(HelloTexts)
    /\ \E r \in Requests :
           /\ Running(r)
           /\ sess[r].spc = "poll"
           /\ IF scene = 0 THEN TRUE ELSE sess[r].last_content = HelloTexts[scene]
    /\ scene' = scene + 1
    /\ UNCHANGED <<pc, kind, msg, lock, pending, sess, logfile, q, events, emitted,
                   submitted, resp>>

HelloPoll ==
    \E r \in Requests : \E stop \in BOOLEAN : \E d \in PollCosts :
        StreamPoll(r, HelloViews[scene][stop], d)

InitHello == InitWith(<<"stream">>, {<<"h","i">>})

NextHello ==
    \/ \E r \in Requests : SendStreamRoute(r)
    \/ \E r \in Requests : StreamEvents(r)
    \/ \E r \in Requests : Connect(r)
    \/ DoBaseline({HelloViews[0][FALSE]})
    \/ DoSendMessage
    \/ PageGrows
    \/ HelloPoll
    \/ \E r \in Requests : TimeOut(r)
    \/ \E r \in Requests : WorkerEnd(r)
    \/ \E r \in Requests : WorkerError(r)
    \/ \E r \in Requests : ConsumerStart(r)
    \/ \E r \in Requests : ConsumerGet(r)

SpecHello == InitHello /\ [][NextHello]_vars

(***************************************************************************)
(* Continuous capture: start_capture, _run_self_test, _capture_messages,   *)
(* _signal_handler and _cleanup.                                           *)
(***************************************************************************)
\* self_test_timeout, in ticks of the capture interval.
SelfTestTicks == 2

\* How many iterations of the capture loop a run without self test makes
\* before the shutdown signal comes.
MaxLoops == 2

self_test_message ==
    <<"P","l","e","a","s","e"," ","r","e","p","l","y"," ","w","i","t","h",
      " ","a"," ","s","h","o","r","t"," ","g","r","e","e","t","i","n","g",
      " ","f","o","r"," ","c","a","p","t","u","r","e"," ","t","e","s","t",
      ".">>

\* What the page shows to one pass of _capture_messages: the two snapshots,
\* whether a loading-message element is present, and whether the page
\* answers page.title().
CapturePages ==
    [ users           : {<<>>, << <<"h","i">> >>},
      ais             : {<<>>, <<tHi>>, <<tHi, tHi>>},
      loading_present : BOOLEAN,
      title_ok        : BOOLEAN ]

CaptureView(page) ==
    [ users           |-> _get_current_user_messages(page),
      ais             |-> _get_current_ai_messages(page),
      loading_present |-> page.loading_present,
      title_ok        |-> page.title_ok ]

CaptureViews == {CaptureView(page) : page \in CapturePages}

\* The capture object of a run of start_capture, with the locals of
\* _capture_messages and of _run_self_test.
NewCapture(self_test_enabled) ==
    [ self_test_enabled     |-> self_test_enabled,
      start_user_count      |-> 0,
      polled                |-> FALSE,
      current_user_messages |-> <<>>,
      current_ai_messages   |-> <<>>,
      loading_present       |-> FALSE,
      signalled             |-> FALSE ]
    @@ [NewSession("capture", self_test_message, SelfTestTicks) EXCEPT
            !.spc = "cap_connect"]

SessionStartRecord(r) == [by |-> r, rec |-> "session_start"]

SessionEndRecord(r, s) ==
    [ by                      |-> r,
      rec                     |-> "session_end",
      total_messages_captured |-> s.message_count,
      total_user_messages     |-> Len(s.user_messages_list),
      total_ai_messages       |-> Len(s.ai_messages_list),
      last_user_index_written |-> s.last_user_index_written,
      last_ai_index_written   |-> s.last_ai_index_written,
      total_loops             |-> s.loop_count ]

\* A ledger step that leaves out the entries whose content the ledger holds.
NewAiMessagesByContent(s, v) ==
    IF Len(v.ais) > Len(s.ai_messages_list) /\ ~v.loading_present
    THEN SelectSeq(SubSeq(v.ais, Len(s.ai_messages_list) + 1, Len(v.ais)),
                   LAMBDA m : \A i \in 1..Len(s.ai_messages_list) :
                                  s.ai_messages_list[i] # m)
    ELSE <<>>

\* if len(current_ai_messages) > len(self.ai_messages_list) and not loading_present
NewAiMessages(s, v) ==
    IF Len(v.ais) > Len(s.ai_messages_list) /\ ~v.loading_present
    THEN SubSeq(v.ais, Len(s.ai_messages_list) + 1, Len(v.ais))
    ELSE <<>>

AiRecords(r, s, new) ==
    [i \in 1..Len(new) |->
        MessageRecord(r, "ai", Len(s.ai_messages_list) + i - 1, new[i])]

AiLedgered(s, new) ==
    IF new = <<>> THEN s
    ELSE [s EXCEPT !.ai_messages_list = @ \o new,
                   !.last_ai_index_written = Len(s.ai_messages_list) + Len(new) - 1,
                   !.message_count = @ + Len(new)]

\* _capture_messages: the object afterwards and the records it appended.
_capture_messages(r, s, v) ==
    IF ~v.title_ok
    THEN [after |-> [s EXCEPT !.polled = FALSE], records |-> <<>>]
    ELSE LET s0 == [s EXCEPT !.polled = TRUE,
                             !.current_user_messages = v.users,
                             !.current_ai_messages = v.ais,
                             !.loading_present = v.loading_present]
             nu == NewUserMessages(s0, v)
             s1 == UserLedgered(s0, nu)
             na == NewAiMessages(s1, v)
         IN  [ after   |-> AiLedgered(s1, na),
               records |-> UserRecords(r, s0, nu) \o AiRecords(r, s1, na) ]

Capturing(r) == Running(r) /\ sess[r].mode = "capture"

\* A caller runs start_capture on a new capture object.
StartCaptureCall(r) ==
    /\ r \in Requests
    /\ pc[r] = "idle"
    /\ kind[r] = "capture"
    /\ pc' = [pc EXCEPT ![r] = "cycle"]
    /\ \E self_test_enabled \in BOOLEAN : SetSess(r, NewCapture(self_test_enabled))
    /\ UNCHANGED <<kind, msg, lock, pending, logfile, q, events, emitted,
                   submitted, resp, scene>>

\* start_capture: _connect_to_browser, _select_copilot_page and
\* _wait_for_user_ready; what they raise is caught as the fatal error.
CaptureConnect(r) ==
    /\ Capturing(r)
    /\ sess[r].spc = "cap_connect"
    /\ \/ SetSess(r, [sess[r] EXCEPT !.spc = IF sess[r].self_test_enabled
                                             THEN "cap_test_send" ELSE "cap_start"])
       \/ \E e \in ConnectErrors :
              SetSess(r, [sess[r] EXCEPT !.spc = "cap_cleanup", !.result = e])
    /\ UNCHANGED <<pc, kind, msg, lock, pending, logfile, q, events, emitted,
                   submitted, resp, scene>>

\* _run_self_test up to its loop: the counts are taken and the test message
\* is sent; a failed send is the fatal error of start_capture.
CaptureTestSend(r, visible, attempts) ==
    /\ Capturing(r)
    /\ sess[r].spc = "cap_test_send"
    /\ LET k == SendingAttempt(sess[r].message, attempts)
       IN  IF ~visible
           THEN /\ SetSess(r, [sess[r] EXCEPT !.spc = "cap_cleanup",
                                              !.result = SelectorTimeout])
                /\ UNCHANGED submitted
           ELSE IF k = 0
           THEN /\ SetSess(r, [sess[r] EXCEPT !.spc = "cap_cleanup",
                                              !.result = SendError(attempts)])
                /\ UNCHANGED submitted
           ELSE /\ SetSess(r, [sess[r] EXCEPT
                       !.spc = "cap_test_poll",
                       !.start_user_count = Len(sess[r].user_messages_list),
                       !.start_ai_count = Len(sess[r].ai_messages_list),
                       !.elapsed = 0])
                /\ submitted' = Append(submitted, [by |-> r, text |-> attempts[k].value])
    /\ UNCHANGED <<pc, kind, msg, lock, pending, logfile, q, events, emitted, resp, scene>>

\* _run_self_test: one iteration of its loop.
CaptureTestPoll(r, v, d) ==
    /\ Capturing(r)
    /\ sess[r].spc = "cap_test_poll"
    /\ sess[r].elapsed < sess[r].timeout
    /\ LET c == _capture_messages(r, [sess[r] EXCEPT !.elapsed = Elapsed(@, d)], v)
           t == c.after
       IN  /\ SetSess(r, IF /\ Len(t.user_messages_list) > t.start_user_count
                            /\ Len(t.ai_messages_list) > t.start_ai_count
                         THEN [t EXCEPT !.spc = "cap_start"] ELSE t)
           /\ logfile' = Appended(logfile, c.records)
    /\ UNCHANGED <<pc, kind, msg, lock, pending, q, events, emitted, submitted, resp, scene>>

\* _run_self_test: the loop condition fails, return False.
CaptureTestTimeOut(r) ==
    /\ Capturing(r)
    /\ sess[r].spc = "cap_test_poll"
    /\ sess[r].elapsed >= sess[r].timeout
    /\ SetSess(r, [sess[r] EXCEPT !.spc = "cap_start"])
    /\ UNCHANGED <<pc, kind, msg, lock, pending, logfile, q, events, emitted,
                   submitted, resp, scene>>

\* start_capture: the session-start record is written, self.running = True.
CaptureStart(r) ==
    /\ Capturing(r)
    /\ sess[r].spc = "cap_start"
    /\ logfile' = Appended(logfile, <<SessionStartRecord(r)>>)
    /\ SetSess(r, [sess[r] EXCEPT !.spc = "cap_loop", !.running = TRUE, !.polled = FALSE])
    /\ UNCHANGED <<pc, kind, msg, lock, pending, q, events, emitted, submitted, resp, scene>>

\* An iteration that leaves the running flag as it is.
SelfTestKeepsRunning(s) == s

\* if self.self_test_enabled: self.running = False
SelfTestStops(s) ==
    IF s.self_test_enabled THEN [s EXCEPT !.running = FALSE] ELSE s

\* start_capture: one iteration of while self.running.
CaptureLoop(r, v) ==
    /\ Capturing(r)
    /\ sess[r].spc = "cap_loop"
    /\ sess[r].running
    /\ sess[r].loop_count < MaxLoops
    /\ LET c == _capture_messages(r, [sess[r] EXCEPT !.loop_count = @ + 1], v)
       IN  /\ SetSess(r, SelfTestStops(c.after))
           /\ logfile' = Appended(logfile, c.records)
    /\ UNCHANGED <<pc, kind, msg, lock, pending, q, events, emitted, submitted, resp, scene>>

\* _signal_handler: SIGINT or SIGTERM while start_capture runs; the handler
\* is installed by __init__, so it runs in every phase of start_capture.
\* signalled records that a signal was delivered to this run.
Signal(r) ==
    /\ Capturing(r)
    /\ sess[r].spc \in {"cap_connect", "cap_test_send", "cap_test_poll",
                        "cap_start", "cap_loop"}
    /\ SetSess(r, [sess[r] EXCEPT !.running = FALSE, !.signalled = TRUE])
    /\ UNCHANGED <<pc, kind, msg, lock, pending, logfile, q, events, emitted,
                   submitted, resp, scene>>

\* start_capture: while self.running fails.
CaptureLoopExit(r) ==
    /\ Capturing(r)
    /\ sess[r].spc = "cap_loop"
    /\ ~sess[r].running
    /\ SetSess(r, [sess[r] EXCEPT !.spc = "cap_cleanup"])
    /\ UNCHANGED <<pc, kind, msg, lock, pending, logfile, q, events, emitted,
                   submitted, resp, scene>>

\* finally: await self._cleanup(): the session-end record is written and
\* start_capture returns.
Cleanup(r) ==
    /\ Capturing(r)
    /\ sess[r].spc = "cap_cleanup"
    /\ logfile' = Appended(logfile, <<SessionEndRecord(r, sess[r])>>)
    /\ SetSess(r, [sess[r] EXCEPT !.spc = "returned", !.result = Closed])
    /\ pc' = [pc EXCEPT ![r] = "done"]
    /\ resp' = [resp EXCEPT ![r] = Closed]
    /\ UNCHANGED <<kind, msg, lock, pending, q, events, emitted, submitted, scene>>

DoCaptureTestSend ==
    \E r \in Requests :
        /\ Capturing(r)
        /\ \E visible \in BOOLEAN :
           \E attempts \in [1..SendAttempts -> AttemptOutcomes(sess[r].message)] :
               CaptureTestSend(r, visible, attempts)

InitCapture == InitWith(<<"capture">>, {<<>>})

NextCapture ==
    \/ \E r \in Requests : StartCaptureCall(r)
    \/ \E r \in Requests : CaptureConnect(r)
    \/ DoCaptureTestSend
    \/ \E r \in Requests : \E v \in CaptureViews : \E d \in PollCosts :
           CaptureTestPoll(r, v, d)
    \/ \E r \in Requests : CaptureTestTimeOut(r)
    \/ \E r \in Requests : CaptureStart(r)
    \/ \E r \in Requests : \E v \in CaptureViews : CaptureLoop(r, v)
    \/ \E r \in Requests : Signal(r)
    \/ \E r \in Requests : CaptureLoopExit(r)
    \/ \E r \in Requests : Cleanup(r)

SpecCapture == InitCapture /\ [][NextCapture]_vars

(***************************************************************************)
(* SpecPure: the normalizer and the completeness heuristic applied to      *)
(* texts.                                                                  *)
(***************************************************************************)
\* How many pieces a text is put together from.
MaxPieces == 5

tToday == <<"T","o","d","a","y">>

Pieces == {<<" ">>, <<NL>>, <<":">>, <<"a">>, tToday}

RECURSIVE Flat(_)
Flat(pieces) == IF pieces = <<>> THEN <<>> ELSE pieces[1] \o Flat(Tail(pieces))

PiecedTexts ==
    UNION {{Flat(ps) : ps \in [1..n -> Pieces]} : n \in 0..MaxPieces}

tLoading == <<"L","o","a","d","i","n","g"," ">>

tDone == <<"D","o","n","e",".">>

tOk == <<"o","k",")">>

tHelloThere == <<"H","e","l","l","o"," ","t","h","e","r","e",".">>

tEditInAPagE == <<"I"," ","w","i","l","l"," ","h","e","l","p",".","E">>

\* A sentence of 12 characters ending in a period, followed by a space.
tHelloThereSpace == tHelloThere \o <<" ">>

HeuristicTexts ==
    {tHi, tLoading, tDone, tOk, tHelloThere, tHelloThereSpace, tEditInAPagE,
     tGenerating}

\* A longer text: a date header, a line, a blank line, a separator with
\* blanks around it, and a line with trailing blanks.
tSample == tToday \o <<NL, "a", NL, NL, " ", ":", " ", NL, "a", " ", " ">>

PureTexts == PiecedTexts \cup HeuristicTexts \cup {tSample}

\* _normalize_stream_text(text) called.
Normalize(r) ==
    /\ r \in Requests
    /\ pc[r] = "idle"
    /\ kind[r] = "normalize"
    /\ resp' = [resp EXCEPT ![r] = Returned(_normalize_stream_text(msg[r]))]
    /\ pc' = [pc EXCEPT ![r] = "done"]
    /\ UNCHANGED <<kind, msg, lock, pending, sess, logfile, q, events, emitted,
                   submitted, scene>>

\* message_looks_complete(content) called.
LooksComplete(r) ==
    /\ r \in Requests
    /\ pc[r] = "idle"
    /\ kind[r] = "complete"
    /\ resp' = [resp EXCEPT ![r] = Returned(message_looks_complete(msg[r]))]
    /\ pc' = [pc EXCEPT ![r] = "done"]
    /\ UNCHANGED <<kind, msg, lock, pending, sess, logfile, q, events, emitted,
                   submitted, scene>>

InitPure == \E k \in {"normalize", "complete"} : InitWith(<<k>>, PureTexts)

NextPure ==
    \/ \E r \in Requests : Normalize(r)
    \/ \E r \in Requests : LooksComplete(r)

SpecPure == InitPure /\ [][NextPure]_vars

(***************************************************************************)
(* SpecToken: several clients connect to stream_events with one stream id. *)
(***************************************************************************)
\* How many further clients connect with the id of the streaming request.
NumReplays == 2

TokenPages ==
    [ users   : {<<>>},
      ais     : {<<>>, <<tHi>>, <<tHiBang>>},
      loading : {<<>>},
      stop    : BOOLEAN ]

TokenViews == {PollView(page) : page \in TokenPages}

InitToken ==
    InitWith(<<"stream", "events">> \o [i \in 1..NumReplays |-> "replay"],
             {<<"h","i">>})

NextToken ==
    \/ \E r \in Requests : SendStreamRoute(r)
    \/ \E r \in Requests : StreamEvents(r)
    \/ \E r \in Requests : Connect(r)
    \/ DoBaseline(TokenViews)
    \/ DoSendMessage
    \/ DoStreamPoll(TokenViews)
    \/ \E r \in Requests : TimeOut(r)
    \/ \E r \in Requests : WorkerEnd(r)
    \/ \E r \in Requests : WorkerError(r)
    \/ \E r \in Requests : ConsumerStart(r)
    \/ \E r \in Requests : ConsumerGet(r)

SpecToken == InitToken /\ [][NextToken]_vars

(***************************************************************************)
(* SpecScript: one direct call against a page whose shots are recorded:    *)
(* before each poll the page turns to its next shot, which that poll       *)
(* reads: nothing, the indicator with a text and no assistant block, or    *)
(* one assistant block.  The stop control is never present and the         *)
(* baseline is taken on the empty page.  The script is the sequence of     *)
(* shots shown so far, one per poll.                                       *)
(***************************************************************************)
ScriptPages ==
    << [users |-> <<>>, ais |-> <<>>,      loading |-> <<>>,        stop |-> FALSE],
       [users |-> <<>>, ais |-> <<>>,      loading |-> tGenerating, stop |-> FALSE],
       [users |-> <<>>, ais |-> <<tHi>>,   loading |-> <<>>,        stop |-> FALSE] >>

ScriptViews == [i \in DOMAIN ScriptPages |-> PollView(ScriptPages[i])]

\* The page turns to its next shot while the coroutine sleeps.
PageTurns ==
    /\ \E r \in Requests :
           /\ Running(r)
           /\ sess[r].spc = "poll"
           /\ sess[r].elapsed < sess[r].timeout
           /\ Len(scene) = sess[r].elapsed
    /\ \E i \in DOMAIN ScriptPages : scene' = Append(scene, i)
    /\ UNCHANGED <<pc, kind, msg, lock, pending, sess, logfile, q, events, emitted,
                   submitted, resp>>

\* What the poll after the polls made so far sees.
ScriptView(r) == ScriptViews[scene[sess[r].elapsed + 1]]

ScriptWaitPoll ==
    \E r \in Requests : \E d \in PollCosts :
        /\ Running(r)
        /\ sess[r].spc = "poll"
        /\ Len(scene) = sess[r].elapsed + 1
        /\ WaitPoll(r, ScriptView(r), d)

ScriptStreamPoll ==
    \E r \in Requests : \E d \in PollCosts :
        /\ Running(r)
        /\ sess[r].spc = "poll"
        /\ Len(scene) = sess[r].elapsed + 1
        /\ StreamPoll(r, ScriptView(r), d)

InitScript ==
    \E k \in {"direct_wait", "direct_stream"} :
        InitOn(<<k>>, {<<"h","i">>}, {<<>>})

NextScript ==
    \/ \E r \in Requests : DirectCall(r)
    \/ \E r \in Requests : Connect(r)
    \/ DoBaseline({ScriptViews[1]})
    \/ DoSendMessage
    \/ PageTurns
    \/ ScriptWaitPoll
    \/ ScriptStreamPoll
    \/ \E r \in Requests : TimeOut(r)
    \/ \E r \in Requests : DirectDone(r)

SpecScript == InitScript /\ [][NextScript]_vars

(***************************************************************************)
(* SpecMixed: two requests to the blocking route and one to the streaming  *)
(* route, served concurrently (the server runs each request on a thread    *)
(* of its own) against one page, which is empty at the baseline, shows     *)
(* one assistant block at every poll, and never the stop control: every    *)
(* session that sent its message finalizes on its seventh poll, before     *)
(* its deadline.                                                           *)
(***************************************************************************)
MixedPages ==
    [ users   : {<<>>},
      ais     : {<<tHi>>},
      loading : {<<>>},
      stop    : {FALSE} ]

MixedViews == {PollView(page) : page \in MixedPages}

InitMixed == InitWith(<<"send", "send", "stream">>, {<<"h","i">>})

NextMixed ==
    \/ \E r \in Requests : SendRoute(r)
    \/ \E r \in Requests : AcquireLock(r)
    \/ \E r \in Requests : Respond(r)
    \/ \E r \in Requests : SendStreamRoute(r)
    \/ \E r \in Requests : StreamEvents(r)
    \/ \E r \in Requests : Connect(r)
    \/ DoBaseline({PollView([users |-> <<>>, ais |-> <<>>, loading |-> <<>>, stop |-> FALSE])})
    \/ DoSendMessage
    \/ DoWaitPoll(MixedViews)
    \/ DoStreamPoll(MixedViews)
    \/ \E r \in Requests : WorkerEnd(r)
    \/ \E r \in Requests : WorkerError(r)
    \/ \E r \in Requests : ConsumerStart(r)
    \/ \E r \in Requests : ConsumerGet(r)

SpecMixed == InitMixed /\ [][NextMixed]_vars

(***************************************************************************)
(* The stability tracker of backup/test_streaming.py:                      *)
(* check_streaming_complete over the cycles of test_streaming_detection.   *)
(***************************************************************************)
streaming_wait_cycles == 3

\* if len(tracker['lengths']) > 5: tracker['lengths'] = tracker['lengths'][-5:]
LengthHistory == 5

\* How many cycles a run of the tracker makes.
MaxCycles == 6

\* The contents a cycle shows: two texts that are not complete and differ
\* in length, a third as long as one of them, and a complete sentence.
TrackerTexts == {tHi, tOk, tHiBang, tHelloThere}

NewTracker == [lengths |-> <<>>, stable_cycles |-> 0]

\* A tracker that keeps its counter when the length changes.
TrackedKeepingCount(tracker, content) ==
    LET lengths == Append(tracker.lengths, Len(content))
        recent  == IF Len(lengths) > LengthHistory
                   THEN SubSeq(lengths, Len(lengths) - LengthHistory + 1, Len(lengths))
                   ELSE lengths
    IN  [ lengths       |-> recent,
          stable_cycles |->
              IF Len(recent) >= 2 /\ recent[Len(recent)] = recent[Len(recent) - 1]
              THEN tracker.stable_cycles + 1
              ELSE tracker.stable_cycles ]

\* The body of the loop of check_streaming_complete up to the counter: the
\* tracker of one message after a cycle that shows content.
Tracking(tracker, content) ==
    LET lengths == Append(tracker.lengths, Len(content))
        recent  == IF Len(lengths) > LengthHistory
                   THEN SubSeq(lengths, Len(lengths) - LengthHistory + 1, Len(lengths))
                   ELSE lengths
    IN  [ lengths       |-> recent,
          stable_cycles |->
              IF Len(recent) >= 2
              THEN IF recent[Len(recent)] = recent[Len(recent) - 1]
                   THEN tracker.stable_cycles + 1
                   ELSE 0
              ELSE tracker.stable_cycles ]

\* check_streaming_complete(messages, cycle_num): ai_streaming_tracker
\* afterwards and the set it returns.  Message i of the code is entry i + 1.
check_streaming_complete(ai_streaming_tracker, messages) ==
    LET before(i) == IF i \in DOMAIN ai_streaming_tracker
                     THEN ai_streaming_tracker[i] ELSE NewTracker
        known     == IF Len(ai_streaming_tracker) > Len(messages)
                     THEN Len(ai_streaming_tracker) ELSE Len(messages)
        after     == [i \in 1..known |->
                         IF i <= Len(messages)
                         THEN Tracking(before(i), messages[i])
                         ELSE ai_streaming_tracker[i]]
    IN  [ ai_streaming_tracker |-> after,
          ready_messages       |->
              {i - 1 : i \in {j \in 1..Len(messages) :
                  \/ after[j].stable_cycles >= streaming_wait_cycles
                  \/ message_looks_complete(messages[j])}} ]

\* test_streaming_detection starts: the tracker is empty.
TrackerStart(r) ==
    /\ r \in Requests
    /\ pc[r] = "idle"
    /\ kind[r] = "tracker"
    /\ pc' = [pc EXCEPT ![r] = "cycle"]
    /\ SetSess(r, [spc |-> "tracking", ai_streaming_tracker |-> <<>>, ready |-> {}])
    /\ UNCHANGED <<kind, msg, lock, pending, logfile, q, events, emitted,
                   submitted, resp, scene>>

\* ready = check_streaming_complete(messages, cycle): one cycle.  scene
\* keeps the messages of the cycles made so far.
TrackerCycle(r, messages) ==
    /\ Running(r)
    /\ sess[r].spc = "tracking"
    /\ Len(scene) < MaxCycles
    /\ LET c == check_streaming_complete(sess[r].ai_streaming_tracker, messages)
       IN  SetSess(r, [sess[r] EXCEPT !.ai_streaming_tracker = c.ai_streaming_tracker,
                                      !.ready = c.ready_messages])
    /\ scene' = Append(scene, messages)
    /\ UNCHANGED <<pc, kind, msg, lock, pending, logfile, q, events, emitted,
                   submitted, resp>>

InitTracker == InitOn(<<"tracker">>, {<<>>}, {<<>>})

NextTracker ==
    \/ \E r \in Requests : TrackerStart(r)
    \/ \E r \in Requests : \E content \in TrackerTexts : TrackerCycle(r, <<content>>)

SpecTracker == InitTracker /\ [][NextTracker]_vars

(***************************************************************************)
(* SpecReply: a direct call on a conversation that already holds a reply.  *)
(***************************************************************************)
\* The page before the send: one assistant block, no indicator.
EarlierReply == [users |-> <<>>, ais |-> <<tHi>>, loading |-> <<>>, stop |-> FALSE]

\* The pages a poll can meet after the send: the earlier reply alone, or
\* followed by a new block that shows boilerplate only or text; the
\* indicator absent or showing text.
ReplyPages ==
    [ users   : {<<>>},
      ais     : {<<tHi>>, <<tHi, tGenerating>>, <<tHi, tYo>>},
      loading : {<<>>, tYo},
      stop    : BOOLEAN ]

ReplyViews == {PollView(page) : page \in ReplyPages}

InitReply ==
    \E k \in {"direct_wait", "direct_stream"} : InitWith(<<k>>, {<<"h","i">>})

NextReply ==
    \/ \E r \in Requests : DirectCall(r)
    \/ \E r \in Requests : Connect(r)
    \/ DoBaseline({PollView(EarlierReply)})
    \/ DoSendMessage
    \/ DoWaitPoll(ReplyViews)
    \/ DoStreamPoll(ReplyViews)
    \/ \E r \in Requests : TimeOut(r)
    \/ \E r \in Requests : DirectDone(r)

SpecReply == InitReply /\ [][NextReply]_vars

(***************************************************************************)
(* SpecSnapshot: the snapshot source called on a page, for either role.    *)
(***************************************************************************)
\* How many blocks of one role a page shows.
MaxBlocks == 2

\* The texts of an element: blank, a message, another message, and for the
\* assistant a reply under its "Copilot said" label.
UserElements == {<<" ">>, <<"h","i">>, tYo}

AiElements == {<<" ">>, tHi, CopilotSaid \o <<" ">> \o tYo}

BlocksOf(elements) == UNION {[1..n -> elements] : n \in 0..MaxBlocks}

SnapshotPages ==
    [ users   : BlocksOf(UserElements),
      ais     : BlocksOf(AiElements),
      loading : {<<>>},
      stop    : {FALSE} ]

\* _get_current_user_messages() called on the page of scene.
ReadUsers(r) ==
    /\ r \in Requests
    /\ pc[r] = "idle"
    /\ kind[r] = "snap_users"
    /\ resp' = [resp EXCEPT ![r] = Returned(_get_current_user_messages(scene))]
    /\ pc' = [pc EXCEPT ![r] = "done"]
    /\ UNCHANGED <<kind, msg, lock, pending, sess, logfile, q, events, emitted,
                   submitted, scene>>

\* _get_current_ai_messages() called on the page of scene.
ReadAis(r) ==
    /\ r \in Requests
    /\ pc[r] = "idle"
    /\ kind[r] = "snap_ais"
    /\ resp' = [resp EXCEPT ![r] = Returned(_get_current_ai_messages(scene))]
    /\ pc' = [pc EXCEPT ![r] = "done"]
    /\ UNCHANGED <<kind, msg, lock, pending, sess, logfile, q, events, emitted,
                   submitted, scene>>

InitSnapshot ==
    \E k \in {"snap_users", "snap_ais"} : InitOn(<<k>>, {<<>>}, SnapshotPages)

NextSnapshot ==
    \/ \E r \in Requests : ReadUsers(r)
    \/ \E r \in Requests : ReadAis(r)

SpecSnapshot == InitSnapshot /\ [][NextSnapshot]_vars

(***************************************************************************)
(* Properties.                                                             *)
(***************************************************************************)
\* The message records request r wrote for a role, in file order.
Records(r, type) ==
    SelectSeq(logfile, LAMBDA e : e.by = r /\ e.rec = "message" /\ e.type = type)

\* Whether request r pressed Enter on a message.
Sent(r) == \E i \in 1..Len(submitted) : submitted[i].by = r

\* The payloads of the data events a consumer received, in order.
DataOf(es) ==
    LET ds == SelectSeq(es, LAMBDA e : e.event = "data")
    IN  [i \in 1..Len(ds) |-> ds[i].data]

\* The payloads of the data items waiting in a queue, in order.
PayloadsOf(queue) ==
    LET ds == SelectSeq(queue, LAMBDA e : e.type = "data")
    IN  [i \in 1..Len(ds) |-> ds[i].payload]

DataEvents(ds) == [i \in 1..Len(ds) |-> [event |-> "data", data |-> ds[i]]]

StartEvent == [event |-> "start", data |-> "ok"]

EndEvent == [event |-> "end", data |-> "done"]

IsTerminal(e) == e.event \in {"end", "error"}

\* C1: as long as no poll after the send has set the first-delta flag, the
\* operation (sendAndWait or streamResponse) has not returned or closed and
\* has written no assistant entry; and when it ended after the send with the
\* flag still unset, it ended with TimedOut, at the deadline.
NoDeltaEndsTimedOut ==
    \A r \in Requests :
        (Running(r) /\ ~sess[r].first_new_content) =>
            /\ sess[r].spc # "returned"
            /\ Records(r, "ai") = <<>>
            /\ sess[r].last_ai_index_written = -1
            /\ (sess[r].spc = "raised" /\ Sent(r)) =>
                   /\ sess[r].result = TimedOutError
                   /\ sess[r].elapsed >= sess[r].timeout

NoDeltaTimedOutReached ==
    \E r \in Requests :
        /\ Running(r)
        /\ sess[r].mode = "stream"
        /\ sess[r].spc = "raised"
        /\ sess[r].result = TimedOutError
        /\ ~sess[r].first_new_content
        /\ sess[r].seen_stop_generating
        /\ Sent(r)

\* C2: the events a consumer of the stream bridge has received begin with
\* the one start event, hold no terminal event (end or error) before the
\* last position, hold a terminal event exactly when the consumer is done,
\* and so hold exactly one terminal event, with nothing after it, once the
\* session is over.  (The reply of stream_events to an unknown stream id is
\* the route's own response: no session, no bridge.)
WellFramed(es) ==
    es # <<>> =>
        /\ es[1] = StartEvent
        /\ \A i \in 2..Len(es) : es[i].event # "start"
        /\ \A i \in 1..(Len(es) - 1) : ~IsTerminal(es[i])

BridgeFraming ==
    \A r \in Requests :
        kind[r] = "stream" =>
            /\ WellFramed(events[r])
            /\ events[r] # <<>> => (IsTerminal(Last(events[r])) <=> pc[r] = "done")
            /\ pc[r] = "consume" => events[r] # <<>>

BridgeFramingReached ==
    \E r \in Requests :
        /\ pc[r] = "done"
        /\ Len(events[r]) >= 4
        /\ Last(events[r]) = EndEvent

\* C3: at every moment the deltas the consumer has received, followed by the
\* deltas waiting in the queue, are the deltas the session emitted, in the
\* order it emitted them; a consumer that is done has received them all.
HandOffKeepsDeltas ==
    \A r \in Requests :
        kind[r] = "stream" =>
            /\ DataOf(events[r]) \o PayloadsOf(q[r]) = emitted[r]
            /\ (pc[r] = "done" /\ events[r] # <<>>) => DataOf(events[r]) = emitted[r]

HandOffSlowConsumerReached ==
    \E r \in Requests :
        /\ pc[r] = "consume_start"
        /\ Len(PayloadsOf(q[r])) >= 2
        /\ q[r][1].payload # q[r][2].payload
        /\ IsTerminal([event |-> Last(q[r]).type])

\* C10: a streaming session that failed after emitting k deltas has given
\* its consumer, once the consumer is done, the start event, the k data
\* events in order and then one error event carrying the reason of the
\* failure, and no end event; and an error event is only ever received from
\* a session that failed.
StreamFailureFraming ==
    \A r \in Requests :
        (kind[r] = "stream" /\ pc[r] = "done" /\ events[r] # <<>>) =>
            /\ sess[r].spc = "exited"
            /\ ~sess[r].result.ok =>
                   events[r] = <<StartEvent>> \o DataEvents(emitted[r])
                       \o <<[event |-> "error", data |-> sess[r].result.text]>>
            /\ Last(events[r]).event = "error" => ~sess[r].result.ok

StreamFailureAfterDeltaReached ==
    \E r \in Requests :
        /\ pc[r] = "done"
        /\ events[r] # <<>>
        /\ Last(events[r]).event = "error"
        /\ Len(emitted[r]) >= 1
        /\ Len(events[r]) = Len(emitted[r]) + 2

\* C4: when the assistant text grew as "Hello", "Hello there",
\* "Hello there!" under the polls of a streaming session and the session then
\* closed with success, the consumer has received exactly the data events
\* "Hello", " there", "!" in that order before the one end event, and the
\* session wrote one assistant entry, index 0, content "Hello there!".
HelloDeltas ==
    \A r \in Requests :
        ( /\ kind[r] = "stream"
          /\ pc[r] = "done"
          /\ scene = Len(HelloTexts)
          /\ events[r] # <<>>
          /\ Last(events[r]) = EndEvent ) =>
            /\ events[r] = <<StartEvent>> \o DataEvents(<<tHello, tThere, tBang>>)
                               \o <<EndEvent>>
            /\ Records(r, "ai") = <<MessageRecord(r, "ai", 0, HelloTexts[3])>>

\* C5: whenever a session emits a delta, with previous the canonical text it
\* had observed last and current the one it observes now, the delta is
\* current without its first len(previous) characters if current starts with
\* previous, and current in full otherwise.
SuffixOrFull(previous, current) ==
    IF StartsWith(current, previous) THEN Drop(current, Len(previous)) ELSE current

DeltaIsSuffixOrFull ==
    [][ \A r \in Requests :
            (emitted'[r] # emitted[r]) =>
                Last(emitted'[r]) = SuffixOrFull(sess[r].last_content,
                                                 sess'[r].last_content) ]_vars

\* C6: for each role of each session, the index written last is the number
\* of entries the session holds in memory minus one, and the indices of the
\* entries the session wrote are 0, 1, .. up to that index, each once and in
\* increasing order.
IndicesWritten(r, type) ==
    [i \in 1..Len(Records(r, type)) |-> Records(r, type)[i].index]

UpTo(last) == [i \in 1..(last + 1) |-> i - 1]

LedgerInvariant ==
    \A r \in Requests :
        Running(r) =>
            /\ sess[r].last_user_index_written = Len(sess[r].user_messages_list) - 1
            /\ sess[r].last_ai_index_written = Len(sess[r].ai_messages_list) - 1
            /\ IndicesWritten(r, "user") = UpTo(sess[r].last_user_index_written)
            /\ IndicesWritten(r, "ai") = UpTo(sess[r].last_ai_index_written)

\* C7: two requests that failed for different reasons among EmptyInput,
\* SendFailed and TimedOut got replies their callers can tell apart: the
\* status code or the error text differs.
Failed(r) == pc[r] = "done" /\ resp[r].status \in {400, 500}

Visible(reply) == [status |-> reply.status, error |-> reply.error]

FailureKinds == {"EmptyInput", "SendFailed", "TimedOut"}

FailuresDistinguishable ==
    \A r1, r2 \in Requests :
        ( /\ Failed(r1)
          /\ Failed(r2)
          /\ resp[r1].cause \in FailureKinds
          /\ resp[r2].cause \in FailureKinds
          /\ resp[r1].cause # resp[r2].cause ) =>
            Visible(resp[r1]) # Visible(resp[r2])

SendFailedAndTimedOutReached ==
    \E r1, r2 \in Requests :
        /\ Failed(r1)
        /\ Failed(r2)
        /\ resp[r1].cause = "SendFailed"
        /\ resp[r2].cause = "TimedOut"

\* C8: a request or a direct call whose message is empty or only whitespace
\* submits nothing to the page, writes nothing to the ledger, never holds
\* the lock, registers no stream token, and ends with the EmptyInput failure.
BlankRejectedFirst ==
    \A r \in Requests :
        Strip(msg[r]) = <<>> =>
            /\ ~Sent(r)
            /\ Records(r, "user") = <<>>
            /\ Records(r, "ai") = <<>>
            /\ lock # r
            /\ r \notin DOMAIN pending
            /\ pc[r] = "done" => (~resp[r].ok /\ resp[r].cause = "EmptyInput")

\* C9: at most one request is inside a blocking cycle; the lock is held
\* exactly while a cycle executes, by the request that executes it; a request
\* that has got its reply, whatever the reply, no longer holds the lock.
InCycle == {r \in Requests : pc[r] = "cycle"}

OneBlockingCycle ==
    /\ Cardinality(InCycle) <= 1
    /\ lock # 0 <=> InCycle # {}
    /\ \A r \in InCycle : lock = r /\ Running(r)
    /\ \A r \in Requests : pc[r] # "cycle" => ~Running(r)

LockReleasedAfterFailureReached ==
    \E r1, r2 \in Requests :
        /\ pc[r1] = "done"
        /\ resp[r1].status = 500
        /\ pc[r2] = "cycle"
        /\ lock = r2
        /\ sess[r2].spc = "poll"

\* C11: a stream id issued by send_stream is in the registry or has started
\* a session, never both and never two sessions: among the calls of
\* stream_events that carry it, at most one obtained the message and started
\* a producer, and the id left the registry with that call; every other
\* call, and every call with an id never issued, got the error reply and
\* started no producer.
StartedWith(t) == {r \in Requests : Token(r) = t /\ sess[r].spc # "none"}

Denied(r) == pc[r] = "done" /\ resp[r] = InvalidStream

SingleUseToken ==
    /\ \A t \in Requests :
           kind[t] = "stream" =>
               /\ Cardinality(StartedWith(t)) <= 1
               /\ t \in DOMAIN pending => StartedWith(t) = {}
    /\ \A r \in Requests :
           /\ (kind[r] = "events" /\ pc[r] # "idle") => Denied(r)
           /\ (pc[r] \in {"consume_start", "consume"}) => sess[r].spc # "none"
           /\ (kind[r] \in {"stream", "replay"} /\ pc[r] = "done"
                   /\ resp[r] # EmptyMessage400 /\ StartedWith(Token(r)) # {r}) =>
                  Denied(r)
           /\ Denied(r) =>
                  /\ sess[r].spc = "none"
                  /\ q[r] = <<>>
                  /\ emitted[r] = <<>>
                  /\ events[r] = <<>>

ReplayWonOwnerDeniedReached ==
    \E r1, r2 \in Requests :
        /\ kind[r1] = "replay"
        /\ kind[r2] = "stream"
        /\ sess[r1].spc = "exited"
        /\ emitted[r1] # <<>>
        /\ Denied(r2)
        /\ \E r3 \in Requests : kind[r3] = "replay" /\ r3 # r1 /\ Denied(r3)

\* C12: every call of sendAndWait or streamResponse ends; it ends in one of
\* success, a connection or send failure, or TimedOut, and keeps that
\* outcome; a poll loop whose elapsed time has reached the timeout is left
\* by its next step, with TimedOut; a session emits at most one delta per
\* poll, so finitely many, and none after it has ended.
Callers == {1}

Ended(r) == Running(r) /\ sess[r].spc \in {"returned", "raised"}

Outcomes == {"ConnectionFailure", "SendFailed", "TimedOut"}

CallsTerminate ==
    /\ \A r \in Callers : (pc[r] = "cycle") ~> Ended(r)
    /\ [](\A r \in Requests :
              /\ Running(r) => Len(emitted[r]) <= sess[r].elapsed
              /\ (Ended(r) /\ ~sess[r].result.ok) => sess[r].result.cause \in Outcomes)
    /\ [][ \A r \in Requests :
               /\ Ended(r) => (sess'[r] = sess[r] /\ emitted'[r] = emitted[r])
               /\ ( /\ Running(r)
                    /\ sess[r].spc = "poll"
                    /\ sess[r].elapsed >= sess[r].timeout
                    /\ sess'[r] # sess[r] ) =>
                      (sess'[r].spc = "raised" /\ sess'[r].result = TimedOutError) ]_vars

TimedOutAfterDeltasReached ==
    \E r \in Requests :
        /\ Ended(r)
        /\ sess[r].result = TimedOutError
        /\ sess[r].elapsed = sess[r].timeout
        /\ Len(emitted[r]) = MaxDeltas

\* C13: the log is append-only: whatever step is taken, the log afterwards
\* is the log before with zero or more records added at its end; no record
\* written is changed, removed or moved.
LogAppendOnly ==
    [][ /\ Len(logfile') >= Len(logfile)
        /\ SubSeq(logfile', 1, Len(logfile)) = logfile ]_vars

LogHasAllRecordKindsReached ==
    /\ Len(logfile) >= 4
    /\ logfile[1].rec = "message"
    /\ \E i \in 2..(Len(logfile) - 2) : logfile[i].rec = "session_start"
    /\ logfile[Len(logfile) - 1].rec = "message"
    /\ logfile[Len(logfile)].rec = "session_end"

\* C14: a session run that has ended (continuous capture, sendAndWait or
\* streamResponse; by return, timeout, send failure or other error) has
\* written exactly one session-end record to the log.
SessionEnds(r) ==
    {i \in 1..Len(logfile) : logfile[i].by = r /\ logfile[i].rec = "session_end"}

SessionEndWritten ==
    \A r \in Requests : pc[r] = "done" => Cardinality(SessionEnds(r)) = 1

\* C18 as stated: in the ledger step of a capture poll, for each role, a
\* snapshot no longer than the ledger writes nothing, and a longer one
\* appends exactly its entries beyond the ledger's length, at the next
\* indices, whatever their content.
StepRecords(r, type) ==
    LET new == SubSeq(logfile', Len(logfile) + 1, Len(logfile'))
        of  == SelectSeq(new, LAMBDA e : e.by = r /\ e.rec = "message" /\ e.type = type)
    IN  [i \in 1..Len(of) |-> [index |-> of[i].index, content |-> of[i].content]]

LedgerStep(old, snap, new, recs, open) ==
    IF Len(snap) > Len(old) /\ open
    THEN /\ new = old \o SubSeq(snap, Len(old) + 1, Len(snap))
         /\ recs = [i \in 1..(Len(snap) - Len(old)) |->
                       [index |-> Len(old) + i - 1, content |-> snap[Len(old) + i]]]
    ELSE /\ new = old
         /\ recs = <<>>

CapturePolled(r) ==
    /\ r \in Requests
    /\ kind[r] = "capture"
    /\ sess[r].spc \in {"cap_test_poll", "cap_loop"}
    /\ sess'[r].elapsed # sess[r].elapsed \/ sess'[r].loop_count # sess[r].loop_count
    /\ sess'[r].polled

Normalized(r) == r \in Requests /\ kind[r] = "normalize" /\ pc[r] = "done"

NormalizerIdempotent ==
    \A r \in Requests :
        Normalized(r) => _normalize_stream_text(resp[r].value) = resp[r].value

NormalizedChangedTextReached ==
    \E r \in Requests :
        /\ Normalized(r)
        /\ resp[r].value # msg[r]
        /\ Len(resp[r].value) >= 3
        /\ \E i \in 1..Len(resp[r].value) : resp[r].value[i] = NL
        /\ \E i \in 1..Len(msg[r]) : msg[r][i] = "T"

\* C16: the normalizer returns the lines of its input, in order, without
\* those whose trimmed form is ":" or starts with a boilerplate prefix, each
\* without its trailing blanks, joined by line feeds and trimmed; an input of
\* boilerplate lines only, and the empty input, give the empty text; every
\* input gives a text.
Boilerplate(line) ==
    \/ Strip(line) = <<":">>
    \/ \E prefix \in skip_prefixes : StartsWith(Strip(line), prefix)

KeptLines(text) ==
    LET ls == SplitLines(text)
    IN  SelectSeq([i \in 1..Len(ls) |-> RStrip(ls[i])], LAMBDA l : ~Boilerplate(l))

NormalizerContract ==
    \A r \in Requests :
        Normalized(r) =>
            /\ resp[r].ok
            /\ resp[r].value = Strip(JoinLines(KeptLines(msg[r])))
            /\ (\A i \in 1..Len(SplitLines(msg[r])) : Boilerplate(SplitLines(msg[r])[i]))
                   => resp[r].value = <<>>
            /\ msg[r] = <<>> => resp[r].value = <<>>

BlankLineKeptBoilerplateDroppedReached ==
    \E r \in Requests :
        /\ Normalized(r)
        /\ msg[r] = tSample
        /\ resp[r].value = <<"a", NL, NL, "a">>

\* C17: message_looks_complete says of "Hi" and of "Loading " that they are
\* not complete, and of "Done." and of "ok)" that they are.
CompletenessExamples ==
    \A r \in Requests :
        (kind[r] = "complete" /\ pc[r] = "done") =>
            /\ msg[r] = tHi => ~resp[r].value
            /\ msg[r] = tLoading => ~resp[r].value
            /\ msg[r] = tDone => resp[r].value
            /\ msg[r] = tOk => resp[r].value

\* The canonical text the k-th poll of a scripted page observes.
Canon(k) == ScriptViews[scene[k]].latest

\* How many polls in a row, the k-th being the last of them, observed the
\* same non-empty canonical text as the poll before them.
RECURSIVE RepeatsAt(_)
RepeatsAt(k) ==
    IF k > 1 /\ Canon(k) # <<>> /\ Canon(k) = Canon(k - 1)
    THEN 1 + RepeatsAt(k - 1)
    ELSE 0

\* C19: with the stop control never present, a call is finalized on the
\* poll that is the 6th in a row observing the same non-empty canonical text
\* as the poll before it: a finalized call made its last poll on such a
\* poll, and a call still polling has met no such poll.
FinalizedOnSixthRepeat ==
    \A r \in Requests :
        Running(r) =>
            /\ sess[r].spc = "returned" =>
                   RepeatsAt(sess[r].elapsed) = StableThreshold
            /\ sess[r].spc = "poll" =>
                   \A k \in 1..sess[r].elapsed : RepeatsAt(k) < StableThreshold

\* The message records of the output file, in file order.
MessageRecords == SelectSeq(logfile, LAMBDA e : e.rec = "message")

\* C20: the sessions do not share a log: all message records of the output
\* file were written by one session, and no two of them carry the same
\* message id "<role>_<index>".
OneSessionPerLog ==
    \A i, j \in 1..Len(MessageRecords) :
        /\ MessageRecords[i].by = MessageRecords[j].by
        /\ i # j =>
               _generate_message_id(MessageRecords[i].type, MessageRecords[i].index)
                   # _generate_message_id(MessageRecords[j].type, MessageRecords[j].index)

\* Request r makes one iteration of its poll loop on the view v.
PollStep(r, v) ==
    \E d \in PollCosts : WaitPoll(r, v, d) \/ StreamPoll(r, v, d)

\* The poll of this step finalized: the call returned or the stream closed.
FinalizedNow(r) == sess[r].spc = "poll" /\ sess'[r].spc = "returned"

\* C21, as stated: a poll finalizes exactly when the first-delta flag is
\* set, the canonical text it reads is non-empty, and either the stop
\* control was seen earlier and is absent now or the counter of unchanged
\* polls has reached the threshold.
FinalizeAsStated ==
    [][ \A r \in Requests : \A v \in LiveViews :
            PollStep(r, v) =>
                ( FinalizedNow(r) <=>
                    /\ sess'[r].first_new_content
                    /\ v.latest # <<>>
                    /\ \/ sess[r].seen_stop_generating /\ ~v.stop
                       \/ sess'[r].unchanged_polls >= StableThreshold ) ]_vars

\* C21, amended: a poll finalizes exactly when it is not still-idle, the
\* stop control is absent at it, the first-delta flag is set, the stop
\* control was seen earlier or the counter has reached the threshold, and,
\* in send_message_and_wait_for_ai, the last assistant block has a
\* non-empty canonical text.
FinalizeCondition ==
    [][ \A r \in Requests : \A v \in LiveViews :
            PollStep(r, v) =>
                ( FinalizedNow(r) <=>
                    /\ ~StillIdle(sess[r], v)
                    /\ ~v.stop
                    /\ sess'[r].first_new_content
                    /\ \/ sess[r].seen_stop_generating
                       \/ sess'[r].unchanged_polls >= StableThreshold
                    /\ sess[r].mode = "wait" =>
                           (v.ais # <<>> /\ v.normalized_content # <<>>) ) ]_vars

FinalizedOnStopGoneReached ==
    \E r \in Requests :
        /\ Running(r)
        /\ sess[r].spc = "returned"
        /\ sess[r].unchanged_polls < StableThreshold
        /\ sess[r].seen_stop_generating

\* C22: a poll that observes the stop control does not finalize: after it
\* the call is still polling, it has written no assistant record and the
\* index of the last assistant entry written is what it was.
StopControlHoldsBack ==
    [][ \A r \in Requests : \A v \in LiveViews :
            (PollStep(r, v) /\ v.stop) =>
                /\ sess'[r].spc = "poll"
                /\ sess'[r].seen_stop_generating
                /\ StepRecords(r, "ai") = <<>>
                /\ sess'[r].last_ai_index_written = sess[r].last_ai_index_written
                /\ sess'[r].result = None ]_vars

CounterReachedUnderStopReached ==
    \E r \in Requests :
        /\ Running(r)
        /\ sess[r].mode = "stream"
        /\ sess[r].spc = "poll"
        /\ sess[r].unchanged_polls >= StableThreshold

\* The observation of a poll is identical to the baseline.
IdenticalToBaseline(s, v) ==
    \/ v.loading_text # <<>> /\ v.loading_text = s.baseline_loading
    \/ /\ v.loading_text = <<>>
       /\ Len(v.ais) <= s.start_ai_count
       /\ v.latest = s.baseline_last_ai_normalized

\* C23: a poll whose observation is identical to the baseline leaves the
\* last observed text, the first-delta flag and the counter of unchanged
\* polls as they were, emits no delta, writes no assistant record and does
\* not finalize; the saw-stop flag is set if the poll observes the stop
\* control and is otherwise left as it was.
BaselinePollChangesNothing ==
    [][ \A r \in Requests : \A v \in LiveViews :
            (PollStep(r, v) /\ IdenticalToBaseline(sess[r], v)) =>
                /\ sess'[r].last_content = sess[r].last_content
                /\ sess'[r].first_new_content = sess[r].first_new_content
                /\ sess'[r].unchanged_polls = sess[r].unchanged_polls
                /\ sess'[r].seen_stop_generating = (sess[r].seen_stop_generating \/ v.stop)
                /\ emitted'[r] = emitted[r]
                /\ q'[r] = q[r]
                /\ StepRecords(r, "ai") = <<>>
                /\ sess'[r].spc = "poll" ]_vars

\* After a first delta, a poll read the indicator text of the baseline.
BaselineIndicatorAfterDeltaReached ==
    \E r \in Requests :
        /\ Running(r)
        /\ sess[r].spc = "poll"
        /\ sess[r].baseline_loading = tHi
        /\ sess[r].last_content = tHiBang
        /\ sess[r].first_new_content
        /\ sess[r].unchanged_polls = 0
        /\ sess[r].elapsed = 3

\* C24: a poll of stream_ai_response emits a delta exactly when its
\* canonical text is non-empty, not that of the baseline, and different
\* from the last observed text; a poll that emits resets the counter of
\* unchanged polls to 0 and makes its text the last observed one; such a
\* poll whose text equals the last observed one emits nothing and, once
\* a first delta was seen, adds one to the counter.
DeltaOnChangeOnly ==
    [][ \A r \in Requests : \A v \in LiveViews :
            (PollStep(r, v) /\ sess[r].mode = "stream") =>
                LET idle    == v.latest = <<>> \/ IdenticalToBaseline(sess[r], v)
                    changed == ~idle /\ v.latest # sess[r].last_content
                IN  /\ Len(emitted'[r]) = Len(emitted[r]) + (IF changed THEN 1 ELSE 0)
                    /\ changed =>
                           /\ Last(emitted'[r]) = v.latest
                           /\ sess'[r].unchanged_polls = 0
                           /\ sess'[r].last_content = v.latest
                           /\ sess'[r].first_new_content
                    /\ (~idle /\ ~changed) =>
                           /\ sess'[r].last_content = sess[r].last_content
                           /\ sess'[r].unchanged_polls =
                                  sess[r].unchanged_polls
                                      + (IF sess[r].first_new_content THEN 1 ELSE 0) ]_vars

DeltaAfterRepeatsReached ==
    \E r \in Requests :
        /\ Running(r)
        /\ sess[r].mode = "stream"
        /\ sess[r].spc = "poll"
        /\ Len(emitted[r]) = 2
        /\ sess[r].unchanged_polls = 1
        /\ sess[r].elapsed = 5

\* C25: a call that completed (send_message_and_wait_for_ai returned, or
\* stream_ai_response closed) has written exactly one assistant record, and
\* the string a blocking call returned is the canonical text of that record.
CompletionWroteOneEntry ==
    \A r \in Requests :
        (Running(r) /\ sess[r].spc = "returned") =>
            /\ Len(Records(r, "ai")) = 1
            /\ sess[r].mode = "wait" =>
                   sess[r].result.value
                       = _normalize_stream_text(Records(r, "ai")[1].content)

\* C26: on every poll of either operation, the user messages the page shows
\* beyond those of the user ledger are appended to the ledger and written,
\* each at the next index, on that poll.
UserMessagesLedgeredOnSight ==
    [][ \A r \in Requests : \A v \in LiveViews :
            PollStep(r, v) =>
                LedgerStep(sess[r].user_messages_list, v.users,
                           sess'[r].user_messages_list, StepRecords(r, "user"), TRUE) ]_vars

\* The read-back of an attempt holds the beginning of the message.
ReadBackHolds(message, attempt) ==
    attempt.found /\ Contains(attempt.value, Take(message, VerifyLen))

Phase(s) ==
    CASE s.spc \in {"none"}                           -> "Idle"
      [] s.spc \in {"connect", "baseline", "send"}    -> "Sending"
      [] s.spc = "poll" /\ ~s.first_new_content       -> "AwaitingFirstDelta"
      [] s.spc = "poll" /\ s.first_new_content        -> "Streaming"
      [] s.spc = "returned"                           -> "Done"
      [] s.spc = "raised" /\ s.result = TimedOutError -> "Timeout"
      [] OTHER                                        -> "Failed"

PhaseRank(phase) ==
    CASE phase = "Idle"               -> 0
      [] phase = "Sending"            -> 1
      [] phase = "AwaitingFirstDelta" -> 2
      [] phase = "Streaming"          -> 3
      [] OTHER                        -> 4

\* C28: the state of a session only moves forward; it is finalized only
\* with a first delta observed; Timeout and Failed are entered from
\* Sending, AwaitingFirstDelta or Streaming; after Done, Timeout or Failed
\* the session does not change, emits no delta and writes no record.
SessionMovesForward ==
    [][ \A r \in Requests :
            LET before == Phase(sess[r])
                after  == Phase(sess'[r])
            IN  /\ PhaseRank(before) <= PhaseRank(after)
                /\ (before # "Done" /\ after = "Done") =>
                       /\ before \in {"AwaitingFirstDelta", "Streaming"}
                       /\ sess'[r].first_new_content
                /\ (before # after /\ after \in {"Timeout", "Failed"}) =>
                       before \in {"Sending", "AwaitingFirstDelta", "Streaming"}
                /\ before \in {"Done", "Timeout", "Failed"} =>
                       /\ sess'[r] = sess[r]
                       /\ emitted'[r] = emitted[r]
                       /\ q'[r] = q[r]
                       /\ StepRecords(r, "user") = <<>>
                       /\ StepRecords(r, "ai") = <<>> ]_vars

DoneAfterStreamingReached ==
    \E r \in Requests :
        /\ Running(r)
        /\ Phase(sess[r]) = "Done"
        /\ pc[r] = "done"
        /\ sess[r].unchanged_polls = StableThreshold
        /\ Len(emitted[r]) = 1

\* The requests whose session is in its poll loop: between its send and
\* its finalize, failure or timeout.
InPollLoop == {r \in Requests : Running(r) /\ sess[r].spc = "poll"}

\* C29, as stated: at most one session is in its poll loop at a time.
OnePollLoop == Cardinality(InPollLoop) <= 1

\* C29, amended: at most one session of a blocking request is between its
\* construction and its end at a time, so no two blocking sessions poll
\* concurrently.
OneBlockingPollLoop ==
    /\ Cardinality({r \in InPollLoop : kind[r] = "send"}) <= 1
    /\ Cardinality({r \in Requests : kind[r] = "send" /\ Running(r)}) <= 1

BlockingWaitsStreamPollsReached ==
    \E r, t, u \in Requests :
        /\ kind[r] = "send" /\ r \in InPollLoop /\ sess[r].elapsed > 0
        /\ kind[t] = "send" /\ t # r /\ pc[t] = "lockwait"
        /\ kind[u] = "stream" /\ u \in InPollLoop /\ sess[u].elapsed > 0

\* A capacity below the number of deltas a reply can have; whatever the
\* capacity of a bounded hand-off, some reply has more deltas than it.
HandOffCapacity == MaxDeltas - 1

\* C30: the deltas produced and not yet consumed never exceed the capacity
\* of the hand-off.
HandOffBounded ==
    \A r \in Requests : Len(PayloadsOf(q[r])) <= HandOffCapacity

\* C31: in a continuous-capture run, once a shutdown signal was delivered
\* (during connect, the self test or the loop), the loop starts no further
\* iteration: whenever the run stands at the loop condition after a signal,
\* the running flag is cleared.
SignalStopsLoop ==
    \A r \in Requests :
        (Capturing(r) /\ sess[r].signalled /\ sess[r].spc = "cap_loop")
            => ~sess[r].running

\* The page queries of one poll: the two snapshots, the indicator text and
\* the stop control.
Queries == {"users", "ais", "loading", "stop"}

\* What the queries of a poll read off a page when those in failed raise:
\* each query catches the exception itself, the snapshots then return [],
\* _get_loading_message_text returns "" and _is_stop_generating_present
\* returns False.
Answered(page, failed) ==
    [ users   |-> IF "users" \in failed THEN <<>> ELSE page.users,
      ais     |-> IF "ais" \in failed THEN <<>> ELSE page.ais,
      loading |-> IF "loading" \in failed THEN <<>> ELSE page.loading,
      stop    |-> IF "stop" \in failed THEN FALSE ELSE page.stop ]

\* The views of the polls at which a query failed and hid what the page
\* showed.
FailedReads ==
    { PollView(Answered(page, failed)) :
          <<page, failed>> \in
              { pf \in LivePages \X (SUBSET Queries) :
                    Answered(pf[1], pf[2]) # pf[1] } }

\* C32: a poll at which a page query failed is skipped: it does not end the
\* call, by return, close or error, it emits no delta, writes no assistant
\* record and leaves the tracked text, the first-delta flag and the counter
\* of unchanged polls as they were; the loop goes on with the next poll.
FailedPollSkipped ==
    [][ \A r \in Requests : \A v \in FailedReads :
            PollStep(r, v) =>
                /\ sess'[r].spc = "poll"
                /\ sess'[r].result = None
                /\ emitted'[r] = emitted[r]
                /\ StepRecords(r, "ai") = <<>>
                /\ sess'[r].last_content = sess[r].last_content
                /\ sess'[r].first_new_content = sess[r].first_new_content
                /\ sess'[r].unchanged_polls = sess[r].unchanged_polls ]_vars

\* C33: the text a poll observes is the canonical text of the indicator
\* when the indicator text is non-empty and that of the last assistant block
\* only when the indicator text is empty; a poll whose observed text is
\* empty, as when a non-empty indicator text normalizes to empty, observes
\* nothing: no tracked text, no delta, no finalize.
ObservedText ==
    [][ \A r \in Requests : \A v \in LiveViews :
            PollStep(r, v) =>
                LET observed ==
                        IF v.loading_text # <<>>
                        THEN _normalize_stream_text(v.loading_text)
                        ELSE IF v.ais # <<>>
                             THEN _normalize_stream_text(Last(v.ais))
                             ELSE <<>>
                    news == SubSeq(emitted'[r], Len(emitted[r]) + 1, Len(emitted'[r]))
                IN  /\ observed = <<>> =>
                           /\ sess'[r].spc = "poll"
                           /\ sess'[r].last_content = sess[r].last_content
                           /\ sess'[r].first_new_content = sess[r].first_new_content
                           /\ sess'[r].unchanged_polls = sess[r].unchanged_polls
                           /\ news = <<>>
                           /\ StepRecords(r, "ai") = <<>>
                    /\ sess'[r].last_content \in {sess[r].last_content, observed}
                    /\ (observed # <<>> /\ ~IdenticalToBaseline(sess[r], v)) =>
                           sess'[r].last_content = observed
                    /\ news \in {<<>>, <<observed>>} ]_vars

\* A blocking call tracked the indicator's text to the end while the page
\* showed an assistant block with another text, which it returned.
IndicatorPreferredReached ==
    \E r \in Requests :
        /\ Running(r)
        /\ sess[r].mode = "wait"
        /\ sess[r].spc = "returned"
        /\ sess[r].last_content = tHi
        /\ sess[r].result.value = tHiBang

\* C34: message_looks_complete returns not-complete for every text that is
\* shorter than the minimum length, ends in a space or ends in "E",
\* whatever its last non-space character.
IncompleteIndicatorsReject ==
    \A r \in Requests :
        (kind[r] = "complete" /\ pc[r] = "done"
            /\ (Len(msg[r]) < MinCompleteLen \/ EndsWith(msg[r], <<" ">>)
                    \/ EndsWith(msg[r], <<"E">>)))
            => resp[r] = Returned(FALSE)

\* For how many cycles in a row, up to the last one, the first message had
\* the length it had on the cycle before.
RECURSIVE EqualRun(_)
EqualRun(cycles) ==
    IF Len(cycles) < 2 THEN 0
    ELSE IF Len(cycles[Len(cycles)][1]) = Len(cycles[Len(cycles) - 1][1])
         THEN 1 + EqualRun(SubSeq(cycles, 1, Len(cycles) - 1))
         ELSE 0

\* C35: after every cycle of the stability tracker, the counter of the
\* message is the number of consecutive cycles on which its length equalled
\* that of the cycle before (0 after any change of length), and the message
\* is reported ready exactly when that number has reached the threshold or
\* its text passes the completeness heuristic.
TrackerReady ==
    \A r \in Requests :
        (Running(r) /\ sess[r].spc = "tracking" /\ scene # <<>>) =>
            /\ sess[r].ai_streaming_tracker[1].stable_cycles = EqualRun(scene)
            /\ (0 \in sess[r].ready)
                   <=> \/ EqualRun(scene) >= streaming_wait_cycles
                       \/ message_looks_complete(Last(scene)[1])

\* A complete sentence was ready on the cycle it appeared; the text that
\* replaced it, which is not complete, is ready on its third repeat.
ReadyOnThirdRepeatReached ==
    \E r \in Requests :
        /\ Running(r)
        /\ sess[r].spc = "tracking"
        /\ scene = <<<<tHelloThere>>, <<tHi>>, <<tHi>>, <<tHi>>, <<tHi>>>>
        /\ sess[r].ready = {0}

\* C36: a send_message_and_wait_for_ai that returned did not return, nor
\* write as the reply, the assistant block that was the last one before the
\* send: the record it wrote is not at the place of that block with the
\* canonical text that block had at the baseline.
ReplyIsNew ==
    \A r \in Requests :
        (Running(r) /\ sess[r].mode = "wait" /\ sess[r].spc = "returned") =>
            \A i \in 1..Len(Records(r, "ai")) :
                ~ /\ Records(r, "ai")[i].index = sess[r].start_ai_count - 1
                  /\ _normalize_stream_text(Records(r, "ai")[i].content)
                         = sess[r].baseline_last_ai_normalized
                  /\ sess[r].result.value = sess[r].baseline_last_ai_normalized

\* C37: send_message_and_wait_for_ai never returns the empty string,
\* stream_ai_response never emits an empty delta, and no assistant record
\* written by either has content whose canonical text is empty.
NothingEmpty ==
    \A r \in Requests :
        Running(r) =>
            /\ (sess[r].mode = "wait" /\ sess[r].spc = "returned") =>
                   sess[r].result.value # <<>>
            /\ \A i \in 1..Len(emitted[r]) : emitted[r][i] # <<>>
            /\ \A i \in 1..Len(Records(r, "ai")) :
                   _normalize_stream_text(Records(r, "ai")[i].content) # <<>>

\* C38: in the log of a run of start_capture, the session-end record is
\* preceded by the session-start record of the run, and every message
\* record of the run lies between the two.
SessionBracketed ==
    \A e \in 1..Len(logfile) :
        logfile[e].rec = "session_end" =>
            \E s \in 1..(e - 1) :
                /\ logfile[s] = SessionStartRecord(logfile[e].by)
                /\ \A m \in 1..Len(logfile) :
                       (logfile[m].rec = "message" /\ logfile[m].by = logfile[e].by)
                           => (s < m /\ m < e)

\* The run of request r wrote its session-start record: it came to the
\* capture loop.
CameToLoop(r) ==
    \E i \in 1..Len(logfile) : logfile[i] = SessionStartRecord(r)

\* C39: a run of start_capture with self_test_enabled that came to the loop
\* makes at most one iteration; when no shutdown signal is delivered it
\* makes exactly one, the iteration clears the running flag, and the
\* session-end record has total_loops 1.  A run without self_test_enabled
\* stays in the loop with the running flag set after each iteration, and
\* leaves it only after a shutdown signal cleared the flag.
OneLoopWithSelfTest ==
    \A r \in Requests :
        (Capturing(r) /\ CameToLoop(r)) =>
            /\ sess[r].self_test_enabled =>
                   /\ sess[r].loop_count <= 1
                   /\ (sess[r].spc = "cap_loop" /\ sess[r].loop_count = 1) =>
                          ~sess[r].running
                   /\ (sess[r].spc \in {"cap_cleanup", "returned"}
                          /\ ~sess[r].signalled) => sess[r].loop_count = 1
                   /\ sess[r].spc = "returned" =>
                          /\ Last(logfile).rec = "session_end"
                          /\ Last(logfile).total_loops = sess[r].loop_count
            /\ ~sess[r].self_test_enabled =>
                   /\ (sess[r].spc = "cap_loop" /\ ~sess[r].signalled) =>
                          sess[r].running
                   /\ sess[r].spc \in {"cap_cleanup", "returned"} =>
                          (sess[r].signalled /\ ~sess[r].running)

\* A run with the self test ended after one iteration without a signal.
OneLoopNoSignalReached ==
    \E r \in Requests :
        /\ Capturing(r)
        /\ sess[r].self_test_enabled
        /\ ~sess[r].signalled
        /\ sess[r].spc = "returned"
        /\ Last(logfile).rec = "session_end"
        /\ Last(logfile).total_loops = 1

\* The non-blank elements of a role, in page order.
NonBlank(elements) == SelectSeq(elements, LAMBDA text : Strip(text) # <<>>)

\* C40: the snapshot of either role has one entry, in page order, for every
\* non-blank element of that role: the stripped text of a user element, the
\* cleaned content of an assistant element.
SnapshotHasEveryBlock ==
    \A r \in Requests :
        pc[r] = "done" =>
            /\ kind[r] = "snap_users" =>
                   resp[r].value =
                       [i \in 1..Len(NonBlank(scene.users)) |->
                            Strip(NonBlank(scene.users)[i])]
            /\ kind[r] = "snap_ais" =>
                   resp[r].value =
                       [i \in 1..Len(NonBlank(scene.ais)) |->
                            AiContent(NonBlank(scene.ais)[i])]
=============================================================================
